---- MODULE Spec2Model ----
(***************************************************************************)
(* The transaction classifiers of machine-learning/moment-fastapi-app.py   *)
(* (rule-first hybrid classifier, POST /api/v1/classify) and of            *)
(* machine-learning/ml-api.py (model-only classifier, POST /api/v1/predict)*)
(*                                                                         *)
(* Representation.                                                         *)
(*  - A Python string that is split into words is the sequence of its      *)
(*    whitespace-delimited words: the request text "Gaji bulanan" is       *)
(*    <<"Gaji", "bulanan">>, the dictionary key "top up" is                *)
(*    <<"top", "up">>, and a single token t is looked up as <<t>>.         *)
(*  - An f-string is the sequence of its literal and interpolated parts.   *)
(*  - A confidence or probability p is the integer 1000 * p (0.98 is 980,  *)
(*    the threshold 0.4 is 400).                                           *)
(*  - The neural network and the stemmer are external: the stemmer is a    *)
(*    function fixed when the process starts, the network returns any      *)
(*    probability vector (or raises) and, being deterministic, the same    *)
(*    vector when it is asked the same input again.                        *)
(***************************************************************************)
EXTENDS Integers, Sequences, FiniteSets, TLC

\* Longest request text, in words.
MaxWords == 3

\* Longest text given to the rule classifier on its own, in words.
MaxRuleWords == 2

\* Python's None.
None == "<None>"

(***************************************************************************)
(* Static tables of moment-fastapi-app.py.  A dict display is kept as the  *)
(* sequence of its key/value items in source order; DictLiteral builds the *)
(* dict Python builds from it.                                             *)
(***************************************************************************)
CATEGORY_TYPES_ITEMS ==
  <<
    <<"Salary", "income">>,
    <<"Freelance", "income">>,
    <<"Investment", "income">>,
    <<"Gift", "income">>,
    <<"Refund", "income">>,
    <<"Bonus", "income">>,
    <<"Allowance", "income">>,
    <<"Holiday Bonus", "income">>,
    <<"Small Business", "income">>,
    <<"Rental", "income">>,
    <<"Dividend", "income">>,
    <<"Pension", "income">>,
    <<"Asset Sale", "income">>,
    <<"Inheritance", "income">>,
    <<"Other", "income">>,
    <<"Food & Dining", "expense">>,
    <<"Transportation", "expense">>,
    <<"Housing", "expense">>,
    <<"Utilities", "expense">>,
    <<"Internet & Phone", "expense">>,
    <<"Healthcare", "expense">>,
    <<"Entertainment", "expense">>,
    <<"Shopping", "expense">>,
    <<"Online Shopping", "expense">>,
    <<"Travel", "expense">>,
    <<"Education", "expense">>,
    <<"Children Education", "expense">>,
    <<"Debt Payment", "expense">>,
    <<"Charitable Giving", "expense">>,
    <<"Family Support", "expense">>,
    <<"Tax", "expense">>,
    <<"Insurance", "expense">>,
    <<"Subscriptions", "expense">>,
    <<"Personal Care", "expense">>,
    <<"Vehicle Maintenance", "expense">>,
    <<"Home Furnishing", "expense">>,
    <<"Clothing", "expense">>,
    <<"Electronics", "expense">>,
    <<"Hobbies", "expense">>,
    <<"Social Events", "expense">>,
    <<"Other", "expense">>
  >>

KEYWORD_MAPPINGS_ITEMS ==
  <<
    <<<<"baju">>, "Clothing">>,
    <<<<"pakaian">>, "Clothing">>,
    <<<<"beli">>, "Shopping">>,
    <<<<"belanja">>, "Shopping">>,
    <<<<"tokopedia">>, "Online Shopping">>,
    <<<<"shopee">>, "Online Shopping">>,
    <<<<"lazada">>, "Online Shopping">>,
    <<<<"bukalapak">>, "Online Shopping">>,
    <<<<"blibli">>, "Online Shopping">>,
    <<<<"zalora">>, "Online Shopping">>,
    <<<<"sepatu">>, "Clothing">>,
    <<<<"tas">>, "Clothing">>,
    <<<<"celana">>, "Clothing">>,
    <<<<"kemeja">>, "Clothing">>,
    <<<<"jaket">>, "Clothing">>,
    <<<<"aksesoris">>, "Clothing">>,
    <<<<"elektronik">>, "Electronics">>,
    <<<<"gadget">>, "Electronics">>,
    <<<<"komputer">>, "Electronics">>,
    <<<<"hp">>, "Electronics">>,
    <<<<"smartphone">>, "Electronics">>,
    <<<<"clothes">>, "Clothing">>,
    <<<<"outfit">>, "Clothing">>,
    <<<<"dress">>, "Clothing">>,
    <<<<"shoes">>, "Clothing">>,
    <<<<"bag">>, "Clothing">>,
    <<<<"pants">>, "Clothing">>,
    <<<<"shirt">>, "Clothing">>,
    <<<<"jacket">>, "Clothing">>,
    <<<<"accessories">>, "Clothing">>,
    <<<<"electronics">>, "Electronics">>,
    <<<<"computer">>, "Electronics">>,
    <<<<"phone">>, "Electronics">>,
    <<<<"mall">>, "Shopping">>,
    <<<<"supermarket">>, "Shopping">>,
    <<<<"pasar">>, "Shopping">>,
    <<<<"toko">>, "Shopping">>,
    <<<<"warung">>, "Food & Dining">>,
    <<<<"fashion">>, "Clothing">>,
    <<<<"lebaran">>, "Shopping">>,
    <<<<"natal">>, "Shopping">>,
    <<<<"diskon">>, "Shopping">>,
    <<<<"sale">>, "Shopping">>,
    <<<<"promo">>, "Shopping">>,
    <<<<"kasir">>, "Shopping">>,
    <<<<"checkout">>, "Online Shopping">>,
    <<<<"makan">>, "Food & Dining">>,
    <<<<"makanan">>, "Food & Dining">>,
    <<<<"minum">>, "Food & Dining">>,
    <<<<"minuman">>, "Food & Dining">>,
    <<<<"jajan">>, "Food & Dining">>,
    <<<<"cemilan">>, "Food & Dining">>,
    <<<<"snack">>, "Food & Dining">>,
    <<<<"gorengan">>, "Food & Dining">>,
    <<<<"roti">>, "Food & Dining">>,
    <<<<"kue">>, "Food & Dining">>,
    <<<<"bakso">>, "Food & Dining">>,
    <<<<"mie">>, "Food & Dining">>,
    <<<<"nasi">>, "Food & Dining">>,
    <<<<"ayam">>, "Food & Dining">>,
    <<<<"sapi">>, "Food & Dining">>,
    <<<<"ikan">>, "Food & Dining">>,
    <<<<"sayur">>, "Food & Dining">>,
    <<<<"buah">>, "Food & Dining">>,
    <<<<"dapur">>, "Food & Dining">>,
    <<<<"masak">>, "Food & Dining">>,
    <<<<"delivery">>, "Food & Dining">>,
    <<<<"pesan">>, "Food & Dining">>,
    <<<<"order">>, "Food & Dining">>,
    <<<<"restoran">>, "Food & Dining">>,
    <<<<"restaurant">>, "Food & Dining">>,
    <<<<"rumah", "makan">>, "Food & Dining">>,
    <<<<"depot">>, "Food & Dining">>,
    <<<<"kantin">>, "Food & Dining">>,
    <<<<"cafe">>, "Food & Dining">>,
    <<<<"kopi">>, "Food & Dining">>,
    <<<<"coffee">>, "Food & Dining">>,
    <<<<"teh">>, "Food & Dining">>,
    <<<<"susu">>, "Food & Dining">>,
    <<<<"jus">>, "Food & Dining">>,
    <<<<"gofood">>, "Food & Dining">>,
    <<<<"grabfood">>, "Food & Dining">>,
    <<<<"shopeefood">>, "Food & Dining">>,
    <<<<"food">>, "Food & Dining">>,
    <<<<"drink">>, "Food & Dining">>,
    <<<<"grocery">>, "Food & Dining">>,
    <<<<"dinner">>, "Food & Dining">>,
    <<<<"lunch">>, "Food & Dining">>,
    <<<<"breakfast">>, "Food & Dining">>,
    <<<<"brunch">>, "Food & Dining">>,
    <<<<"dine">>, "Food & Dining">>,
    <<<<"bensin">>, "Transportation">>,
    <<<<"pertalite">>, "Transportation">>,
    <<<<"pertamax">>, "Transportation">>,
    <<<<"solar">>, "Transportation">>,
    <<<<"bbm">>, "Transportation">>,
    <<<<"gas">>, "Transportation">>,
    <<<<"isi">>, "Transportation">>,
    <<<<"top", "up">>, "Transportation">>,
    <<<<"e-money">>, "Transportation">>,
    <<<<"flazz">>, "Transportation">>,
    <<<<"brizzi">>, "Transportation">>,
    <<<<"toll">>, "Transportation">>,
    <<<<"tol">>, "Transportation">>,
    <<<<"parkir">>, "Transportation">>,
    <<<<"parking">>, "Transportation">>,
    <<<<"grab">>, "Transportation">>,
    <<<<"gojek">>, "Transportation">>,
    <<<<"gocar">>, "Transportation">>,
    <<<<"goride">>, "Transportation">>,
    <<<<"maxim">>, "Transportation">>,
    <<<<"indriver">>, "Transportation">>,
    <<<<"ojek">>, "Transportation">>,
    <<<<"online">>, "Transportation">>,
    <<<<"taksi">>, "Transportation">>,
    <<<<"taxi">>, "Transportation">>,
    <<<<"angkot">>, "Transportation">>,
    <<<<"angkutan">>, "Transportation">>,
    <<<<"umum">>, "Transportation">>,
    <<<<"bus">>, "Transportation">>,
    <<<<"bis">>, "Transportation">>,
    <<<<"transjakarta">>, "Transportation">>,
    <<<<"trans">>, "Transportation">>,
    <<<<"mrt">>, "Transportation">>,
    <<<<"lrt">>, "Transportation">>,
    <<<<"krl">>, "Transportation">>,
    <<<<"commuter">>, "Transportation">>,
    <<<<"kereta">>, "Transportation">>,
    <<<<"train">>, "Transportation">>,
    <<<<"stasiun">>, "Transportation">>,
    <<<<"bandara">>, "Travel">>,
    <<<<"airport">>, "Travel">>,
    <<<<"pesawat">>, "Travel">>,
    <<<<"plane">>, "Travel">>,
    <<<<"flight">>, "Travel">>,
    <<<<"terbang">>, "Travel">>,
    <<<<"kapal">>, "Travel">>,
    <<<<"laut">>, "Travel">>,
    <<<<"ferry">>, "Travel">>,
    <<<<"pelabuhan">>, "Travel">>,
    <<<<"terminal">>, "Transportation">>,
    <<<<"halte">>, "Transportation">>,
    <<<<"rental">>, "Transportation">>,
    <<<<"sewa">>, "Transportation">>,
    <<<<"mobil">>, "Transportation">>,
    <<<<"motor">>, "Transportation">>,
    <<<<"kendaraan">>, "Transportation">>,
    <<<<"transport">>, "Transportation">>,
    <<<<"transportasi">>, "Transportation">>,
    <<<<"perjalanan">>, "Travel">>,
    <<<<"tiket">>, "Travel">>,
    <<<<"ticket">>, "Travel">>,
    <<<<"booking">>, "Travel">>,
    <<<<"hotel">>, "Travel">>,
    <<<<"penginapan">>, "Travel">>,
    <<<<"losmen">>, "Travel">>,
    <<<<"hostel">>, "Travel">>,
    <<<<"villa">>, "Travel">>,
    <<<<"airbnb">>, "Travel">>,
    <<<<"travel">>, "Travel">>,
    <<<<"listrik">>, "Utilities">>,
    <<<<"electricity">>, "Utilities">>,
    <<<<"token">>, "Utilities">>,
    <<<<"pln">>, "Utilities">>,
    <<<<"air">>, "Utilities">>,
    <<<<"pdam">>, "Utilities">>,
    <<<<"water">>, "Utilities">>,
    <<<<"gas">>, "Utilities">>,
    <<<<"pgn">>, "Utilities">>,
    <<<<"internet">>, "Internet & Phone">>,
    <<<<"wifi">>, "Internet & Phone">>,
    <<<<"indihome">>, "Internet & Phone">>,
    <<<<"biznet">>, "Internet & Phone">>,
    <<<<"myrepublic">>, "Internet & Phone">>,
    <<<<"first", "media">>, "Internet & Phone">>,
    <<<<"provider">>, "Internet & Phone">>,
    <<<<"data">>, "Internet & Phone">>,
    <<<<"kuota">>, "Internet & Phone">>,
    <<<<"paket">>, "Internet & Phone">>,
    <<<<"pulsa">>, "Internet & Phone">>,
    <<<<"telepon">>, "Internet & Phone">>,
    <<<<"telpon">>, "Internet & Phone">>,
    <<<<"seluler">>, "Internet & Phone">>,
    <<<<"pascabayar">>, "Internet & Phone">>,
    <<<<"prabayar">>, "Internet & Phone">>,
    <<<<"telkomsel">>, "Internet & Phone">>,
    <<<<"xl">>, "Internet & Phone">>,
    <<<<"indosat">>, "Internet & Phone">>,
    <<<<"smartfren">>, "Internet & Phone">>,
    <<<<"three">>, "Internet & Phone">>,
    <<<<"axis">>, "Internet & Phone">>,
    <<<<"phone">>, "Internet & Phone">>,
    <<<<"mobile">>, "Internet & Phone">>,
    <<<<"bill">>, "Utilities">>,
    <<<<"tagihan">>, "Utilities">>,
    <<<<"bayar">>, "Debt Payment">>,
    <<<<"payment">>, "Debt Payment">>,
    <<<<"cicilan">>, "Debt Payment">>,
    <<<<"angsuran">>, "Debt Payment">>,
    <<<<"kredit">>, "Debt Payment">>,
    <<<<"pinjaman">>, "Debt Payment">>,
    <<<<"loan">>, "Debt Payment">>,
    <<<<"hutang">>, "Debt Payment">>,
    <<<<"debt">>, "Debt Payment">>,
    <<<<"kartu", "kredit">>, "Debt Payment">>,
    <<<<"credit", "card">>, "Debt Payment">>,
    <<<<"pajak">>, "Tax">>,
    <<<<"tax">>, "Tax">>,
    <<<<"ppn">>, "Tax">>,
    <<<<"pph">>, "Tax">>,
    <<<<"samsat">>, "Tax">>,
    <<<<"asuransi">>, "Insurance">>,
    <<<<"insurance">>, "Insurance">>,
    <<<<"premi">>, "Insurance">>,
    <<<<"bpjs">>, "Insurance">>,
    <<<<"jiwasraya">>, "Insurance">>,
    <<<<"prudential">>, "Insurance">>,
    <<<<"allianz">>, "Insurance">>,
    <<<<"langganan">>, "Subscriptions">>,
    <<<<"subscription">>, "Subscriptions">>,
    <<<<"member">>, "Subscriptions">>,
    <<<<"membership">>, "Subscriptions">>,
    <<<<"netflix">>, "Subscriptions">>,
    <<<<"spotify">>, "Subscriptions">>,
    <<<<"youtube">>, "Subscriptions">>,
    <<<<"disney">>, "Subscriptions">>,
    <<<<"hbo">>, "Subscriptions">>,
    <<<<"prime">>, "Subscriptions">>,
    <<<<"gym">>, "Subscriptions">>,
    <<<<"fitnes">>, "Subscriptions">>,
    <<<<"sewa">>, "Housing">>,
    <<<<"kontrakan">>, "Housing">>,
    <<<<"kos">>, "Housing">>,
    <<<<"kost">>, "Housing">>,
    <<<<"apartemen">>, "Housing">>,
    <<<<"rumah">>, "Housing">>,
    <<<<"kpr">>, "Housing">>,
    <<<<"mortgage">>, "Housing">>,
    <<<<"ipl">>, "Housing">>,
    <<<<"maintenance">>, "Housing">>,
    <<<<"kebersihan">>, "Housing">>,
    <<<<"keamanan">>, "Housing">>,
    <<<<"sampah">>, "Housing">>,
    <<<<"obat">>, "Healthcare">>,
    <<<<"apotek">>, "Healthcare">>,
    <<<<"apotik">>, "Healthcare">>,
    <<<<"dokter">>, "Healthcare">>,
    <<<<"doctor">>, "Healthcare">>,
    <<<<"klinik">>, "Healthcare">>,
    <<<<"clinic">>, "Healthcare">>,
    <<<<"rumah", "sakit">>, "Healthcare">>,
    <<<<"hospital">>, "Healthcare">>,
    <<<<"puskesmas">>, "Healthcare">>,
    <<<<"periksa">>, "Healthcare">>,
    <<<<"sakit">>, "Healthcare">>,
    <<<<"sehat">>, "Healthcare">>,
    <<<<"health">>, "Healthcare">>,
    <<<<"medical">>, "Healthcare">>,
    <<<<"kacamata">>, "Healthcare">>,
    <<<<"optik">>, "Healthcare">>,
    <<<<"sekolah">>, "Education">>,
    <<<<"school">>, "Education">>,
    <<<<"kuliah">>, "Education">>,
    <<<<"kampus">>, "Education">>,
    <<<<"universitas">>, "Education">>,
    <<<<"university">>, "Education">>,
    <<<<"kursus">>, "Education">>,
    <<<<"course">>, "Education">>,
    <<<<"les">>, "Education">>,
    <<<<"bimbel">>, "Education">>,
    <<<<"tuition">>, "Education">>,
    <<<<"spp">>, "Education">>,
    <<<<"uang", "pangkal">>, "Education">>,
    <<<<"buku">>, "Education">>,
    <<<<"book">>, "Education">>,
    <<<<"alat", "tulis">>, "Education">>,
    <<<<"stationery">>, "Education">>,
    <<<<"wisuda">>, "Education">>,
    <<<<"anak">>, "Children Education">>,
    <<<<"children">>, "Children Education">>,
    <<<<"salon">>, "Personal Care">>,
    <<<<"barber">>, "Personal Care">>,
    <<<<"pangkas", "rambut">>, "Personal Care">>,
    <<<<"cukur">>, "Personal Care">>,
    <<<<"spa">>, "Personal Care">>,
    <<<<"pijat">>, "Personal Care">>,
    <<<<"massage">>, "Personal Care">>,
    <<<<"kosmetik">>, "Personal Care">>,
    <<<<"cosmetics">>, "Personal Care">>,
    <<<<"makeup">>, "Personal Care">>,
    <<<<"skincare">>, "Personal Care">>,
    <<<<"parfum">>, "Personal Care">>,
    <<<<"sabun">>, "Personal Care">>,
    <<<<"shampo">>, "Personal Care">>,
    <<<<"laundry">>, "Personal Care">>,
    <<<<"bioskop">>, "Entertainment">>,
    <<<<"cinema">>, "Entertainment">>,
    <<<<"film">>, "Entertainment">>,
    <<<<"movie">>, "Entertainment">>,
    <<<<"nonton">>, "Entertainment">>,
    <<<<"tiket">>, "Entertainment">>,
    <<<<"konser">>, "Entertainment">>,
    <<<<"concert">>, "Entertainment">>,
    <<<<"musik">>, "Entertainment">>,
    <<<<"music">>, "Entertainment">>,
    <<<<"game">>, "Entertainment">>,
    <<<<"voucher">>, "Entertainment">>,
    <<<<"hiburan">>, "Entertainment">>,
    <<<<"rekreasi">>, "Entertainment">>,
    <<<<"tamasya">>, "Entertainment">>,
    <<<<"main">>, "Entertainment">>,
    <<<<"play">>, "Entertainment">>,
    <<<<"karaoke">>, "Entertainment">>,
    <<<<"museum">>, "Entertainment">>,
    <<<<"galeri">>, "Entertainment">>,
    <<<<"pertunjukan">>, "Entertainment">>,
    <<<<"teater">>, "Entertainment">>,
    <<<<"bengkel">>, "Vehicle Maintenance">>,
    <<<<"servis">>, "Vehicle Maintenance">>,
    <<<<"service">>, "Vehicle Maintenance">>,
    <<<<"montir">>, "Vehicle Maintenance">>,
    <<<<"oli">>, "Vehicle Maintenance">>,
    <<<<"ban">>, "Vehicle Maintenance">>,
    <<<<"spare", "part">>, "Vehicle Maintenance">>,
    <<<<"aksesoris", "mobil">>, "Vehicle Maintenance">>,
    <<<<"cuci", "mobil">>, "Vehicle Maintenance">>,
    <<<<"perbaikan">>, "Housing">>,
    <<<<"renovasi">>, "Housing">>,
    <<<<"tukang">>, "Housing">>,
    <<<<"furnitur">>, "Home Furnishing">>,
    <<<<"furniture">>, "Home Furnishing">>,
    <<<<"perabot">>, "Home Furnishing">>,
    <<<<"alat", "rumah", "tangga">>, "Home Furnishing">>,
    <<<<"dekorasi">>, "Home Furnishing">>,
    <<<<"kado">>, "Gift">>,
    <<<<"hadiah">>, "Gift">>,
    <<<<"gift">>, "Gift">>,
    <<<<"sumbangan">>, "Charitable Giving">>,
    <<<<"donasi">>, "Charitable Giving">>,
    <<<<"zakat">>, "Charitable Giving">>,
    <<<<"infaq">>, "Charitable Giving">>,
    <<<<"sedekah">>, "Charitable Giving">>,
    <<<<"amal">>, "Charitable Giving">>,
    <<<<"charity">>, "Charitable Giving">>,
    <<<<"keluarga">>, "Family Support">>,
    <<<<"family">>, "Family Support">>,
    <<<<"orang", "tua">>, "Family Support">>,
    <<<<"anak">>, "Family Support">>,
    <<<<"saudara">>, "Family Support">>,
    <<<<"teman">>, "Social Events">>,
    <<<<"traktir">>, "Social Events">>,
    <<<<"patungan">>, "Social Events">>,
    <<<<"arisan">>, "Social Events">>,
    <<<<"nikah">>, "Social Events">>,
    <<<<"kondangan">>, "Social Events">>,
    <<<<"ulang", "tahun">>, "Social Events">>,
    <<<<"pesta">>, "Social Events">>,
    <<<<"kumpul">>, "Social Events">>,
    <<<<"liburan">>, "Travel">>,
    <<<<"hobi">>, "Hobbies">>,
    <<<<"kamera">>, "Hobbies">>,
    <<<<"buku">>, "Hobbies">>,
    <<<<"tanaman">>, "Hobbies">>,
    <<<<"hewan", "peliharaan">>, "Hobbies">>,
    <<<<"pet">>, "Hobbies">>,
    <<<<"alat", "pancing">>, "Hobbies">>,
    <<<<"olahraga">>, "Hobbies">>,
    <<<<"sport">>, "Hobbies">>,
    <<<<"musik">>, "Hobbies">>,
    <<<<"gaji">>, "Salary">>,
    <<<<"salary">>, "Salary">>,
    <<<<"upah">>, "Salary">>,
    <<<<"pendapatan">>, "Salary">>,
    <<<<"penghasilan">>, "Salary">>,
    <<<<"income">>, "Salary">>,
    <<<<"bonus">>, "Bonus">>,
    <<<<"thr">>, "Holiday Bonus">>,
    <<<<"tunjangan">>, "Allowance">>,
    <<<<"allowance">>, "Allowance">>,
    <<<<"insentif">>, "Bonus">>,
    <<<<"komisi">>, "Freelance">>,
    <<<<"fee">>, "Freelance">>,
    <<<<"honor">>, "Freelance">>,
    <<<<"freelance">>, "Freelance">>,
    <<<<"proyek">>, "Freelance">>,
    <<<<"project">>, "Freelance">>,
    <<<<"usaha">>, "Small Business">>,
    <<<<"bisnis">>, "Small Business">>,
    <<<<"toko">>, "Small Business">>,
    <<<<"jualan">>, "Small Business">>,
    <<<<"laba">>, "Small Business">>,
    <<<<"profit">>, "Small Business">>,
    <<<<"omset">>, "Small Business">>,
    <<<<"revenue">>, "Small Business">>,
    <<<<"sewa">>, "Rental">>,
    <<<<"kontrakan">>, "Rental">>,
    <<<<"kos">>, "Rental">>,
    <<<<"investasi">>, "Investment">>,
    <<<<"investment">>, "Investment">>,
    <<<<"saham">>, "Investment">>,
    <<<<"reksadana">>, "Investment">>,
    <<<<"obligasi">>, "Investment">>,
    <<<<"dividen">>, "Dividend">>,
    <<<<"dividend">>, "Dividend">>,
    <<<<"bunga">>, "Investment">>,
    <<<<"interest">>, "Investment">>,
    <<<<"modal">>, "Investment">>,
    <<<<"capital", "gain">>, "Investment">>,
    <<<<"jual", "aset">>, "Asset Sale">>,
    <<<<"asset", "sale">>, "Asset Sale">>,
    <<<<"warisan">>, "Inheritance">>,
    <<<<"inheritance">>, "Inheritance">>,
    <<<<"pensiun">>, "Pension">>,
    <<<<"pension">>, "Pension">>,
    <<<<"hadiah">>, "Gift">>,
    <<<<"gift">>, "Gift">>,
    <<<<"angpao">>, "Gift">>,
    <<<<"transfer">>, "Other">>,
    <<<<"tarik", "tunai">>, "Other">>,
    <<<<"setor", "tunai">>, "Other">>,
    <<<<"refund">>, "Refund">>,
    <<<<"reimburse">>, "Refund">>,
    <<<<"klaim">>, "Refund">>,
    <<<<"claim">>, "Refund">>
  >>

FINANCIAL_TERMS_ITEMS ==
  <<
    <<"gopay", "gopay">>,
    <<"ovo", "ovo">>,
    <<"dana", "dana">>,
    <<"bca", "bca">>,
    <<"kpr", "kpr">>,
    <<"pln", "pln">>,
    <<"bibit", "investasi">>,
    <<"membership", "member">>,
    <<"payment", "payment">>,
    <<"transfer", "transfer">>,
    <<"salary", "salary">>,
    <<"bill", "bill">>,
    <<"shopping", "shopping">>,
    <<"food", "food">>
  >>

\* DictLiteral, were the first item of a key to stay.
DictLiteral_first(items) ==
  LET keys == {items[i][1] : i \in DOMAIN items}
      at(k) == {i \in DOMAIN items : items[i][1] = k}
      first(k) == CHOOSE i \in at(k) : \A j \in at(k) : i <= j
  IN  [k \in keys |-> items[first(k)][2]]

\* A dict display evaluates its items left to right and a later item
\* overwrites an earlier one with the same key.
DictLiteral(items) ==
  LET keys == {items[i][1] : i \in DOMAIN items}
      at(k) == {i \in DOMAIN items : items[i][1] = k}
      last(k) == CHOOSE i \in at(k) : \A j \in at(k) : j <= i
  IN  [k \in keys |-> items[last(k)][2]]

DEFAULT_CATEGORIES == DictLiteral(<< <<"income", "Other">>, <<"expense", "Other">> >>)

CATEGORY_TYPES == DictLiteral(CATEGORY_TYPES_ITEMS)

KEYWORD_MAPPINGS == DictLiteral(KEYWORD_MAPPINGS_ITEMS)

FINANCIAL_TERMS == DictLiteral(FINANCIAL_TERMS_ITEMS)

\* The keys of the tables ("k in TABLE").
Categories == DOMAIN CATEGORY_TYPES

Keywords == DOMAIN KEYWORD_MAPPINGS

FinancialTerms == DOMAIN FINANCIAL_TERMS

\* 0.4, in thousandths.
CONFIDENCE_THRESHOLD == 400

(***************************************************************************)
(* Inputs: the words request texts are made of, the stemmers and label     *)
(* maps the process may have loaded, and the vectors the network returns.  *)
(***************************************************************************)
Vocabulary ==
  {"Payment", "for", "groceries", "Gaji", "bulanan", "asset", "sale", "bibit",
   "purchase,"}

Texts == UNION {[1..n -> Vocabulary] : n \in 0..MaxWords}

\* The words of the texts that exercise the rule classifier: a key declared
\* three times, plurals of keys, a financial term, intent words that are
\* no keys, intent words that are keys and an inflected form of one, the
\* words of the keys "tarik tunai" and "rumah makan".
RuleVocabulary ==
  {"sewa", "Gaji", "sale", "sales", "groceries", "bibit", "purchase,", "trip",
   "makan", "transport", "dimakan", "tarik", "tunai", "rumah"}

RuleTexts == UNION {[1..n -> RuleVocabulary] : n \in 0..MaxRuleWords}

\* The words of the texts that exercise the explanation of an accepted
\* prediction: words of the shopping, food, transport and income clusters
\* ("GrabBike" has "grab" in it and is no keyword) and a word of none.
ExplainVocabulary == {"belanja", "makan", "GrabBike", "Gaji", "for"}

ExplainTexts == UNION {[1..n -> ExplainVocabulary] : n \in 0..MaxRuleWords}

\* The type field of moment-fastapi-app.py is a required str: the two
\* recognised values and another.
RequestTypes == {"income", "expense", "transfer"}

\* The type field of ml-api.py is Optional[str].
ApiRequestTypes == RequestTypes \cup {None}

\* str.lower() on the words of the vocabulary.
Lower(w) ==
  CASE w = "Payment" -> "payment"
    [] w = "Gaji" -> "gaji"
    [] w = "GrabBike" -> "grabbike"
    [] OTHER -> w

\* re.sub(r'[^\w\s]', '', w) on the words of the vocabulary.
StripPunct(w) ==
  CASE w = "purchase," -> "purchase"
    [] OTHER -> w

\* sub in w (substring test) for the words the model can produce.
HasSubstring(w, sub) ==
  \/ w = sub
  \/ <<w, sub>> \in {<<"grabfood", "grab">>, <<"grabbike", "grab">>,
                     <<"grabfood", "food">>, <<"transportasi", "transport">>,
                     <<"dimakan", "makan">>,
                     <<"gofood", "food">>, <<"makanan", "makan">>}

\* The stemmer raised on the token.
StemRaises == "<raise>"

\* The tokens the stemmer can be asked about.
StemInputs == {StripPunct(Lower(w)) : w \in Vocabulary \cup RuleVocabulary \cup ExplainVocabulary}

\* The stemmer of the process.  Sastrawi leaves the vocabulary's words alone
\* but for the suffix of "bulanan" and the prefix of "dimakan"; the other
\* stemmer knows no Indonesian affixes, fails on "bulanan"
\* and, knowing English, turns "groceries" into "grocery", "sales" into
\* "sale" and "payment" into "pay".
Stemmers ==
  {[w \in StemInputs |-> CASE w = "bulanan" -> "bulan"
                            [] w = "dimakan" -> "makan"
                            [] OTHER -> w],
   [w \in StemInputs |-> CASE w = "bulanan" -> StemRaises
                            [] w = "groceries" -> "grocery"
                            [] w = "sales" -> "sale"
                            [] w = "payment" -> "pay"
                            [] OTHER -> w]}

\* id2label of label_mappings.pkl (index 1 is Python's index 0).
\* The first names a label the catalog does not know, the second has no
\* income label.
LabelMaps ==
  {<<"Salary", "Crypto", "Bonus", "Clothing">>,
   <<"Travel", "Clothing", "Food & Dining", "Other">>}

\* A label map with five expense labels and one income label.
RankedLabelMaps == {<<"Travel", "Clothing", "Salary", "Food & Dining", "Other", "Shopping">>}

ProbLevels == {200, 400}

VARIABLES
  service,       \* the program that runs: "app" (moment-fastapi-app.py) or "api" (ml-api.py)
  model_loaded,  \* the model, the tokenizer and the labels were loaded at startup
  stemmer,       \* lemmatizer: token -> stem, or StemRaises
  id2label,      \* label index -> category name (the classes of label_encoder in ml-api.py)
  pc,            \* "idle" | "received" | "model" | "done" | "aborted"
  request,       \* [text, spaces, type] of the request being handled
  rule_verdict,  \* the rule verdict of the request being handled
  outcome,       \* what the network did for this request
  response,      \* the HTTP response of the request
  calls,         \* the components the handler invoked for this request
  lastPredict,   \* the last input the network saw and what it returned
  prev,          \* data payload of the previous run of the same request
  health,        \* what the health endpoint has just reported
  handlers       \* the handler instances that run side by side (SpecConcurrent)

vars ==
  <<service, model_loaded, stemmer, id2label, pc, request, rule_verdict, outcome, response,
    calls,
    lastPredict, prev, health, handlers>>

(***************************************************************************)
(* Helper functions of moment-fastapi-app.py.                              *)
(***************************************************************************)
Range(s) == {s[i] : i \in DOMAIN s}

Min(a, b) == IF a < b THEN a ELSE b

\* str.split(): the non-empty words.
Split(s) == SelectSeq(s, LAMBDA w : w # "")

\* NormalizeToken, were the token lost when the stemmer raises.
NormalizeToken_drop(token) ==
  IF token \in FinancialTerms THEN FINANCIAL_TERMS[token]
  ELSE IF stemmer[token] = StemRaises THEN ""
  ELSE stemmer[token]

\* A token of preprocess_text: the canonical financial term, else its stem,
\* else (the stemmer raised) the token itself.
NormalizeToken(token) ==
  IF token \in FinancialTerms THEN FINANCIAL_TERMS[token]
  ELSE IF stemmer[token] = StemRaises THEN token
  ELSE stemmer[token]

\* The words of ' '.join(tokens); an empty stem leaves an empty word.
preprocess_text(text) ==
  LET cleaned == Split([i \in DOMAIN text |-> StripPunct(Lower(text[i]))])
  IN  [i \in DOMAIN cleaned |-> NormalizeToken(cleaned[i])]

\* CATEGORY_TYPES.get(category)
CategoryType(category) ==
  IF category \in Categories THEN CATEGORY_TYPES[category] ELSE None

\* FirstKeyword, were the type of the category not compared.
FirstKeyword_anytype(words, trans_type) ==
  LET hits == {i \in DOMAIN words : <<words[i]>> \in Keywords}
  IN  IF hits = {} THEN 0 ELSE CHOOSE i \in hits : \A j \in hits : i <= j

\* FirstKeyword, were the loop to go on after a match.
FirstKeyword_last(words, trans_type) ==
  LET hits == {i \in DOMAIN words :
                 /\ <<words[i]>> \in Keywords
                 /\ CategoryType(KEYWORD_MAPPINGS[<<words[i]>>]) = trans_type}
  IN  IF hits = {} THEN 0 ELSE CHOOSE i \in hits : \A j \in hits : i >= j

\* The index of the first word that is a keyword of the requested type, or 0.
FirstKeyword(words, trans_type) ==
  LET hits == {i \in DOMAIN words :
                 /\ <<words[i]>> \in Keywords
                 /\ CategoryType(KEYWORD_MAPPINGS[<<words[i]>>]) = trans_type}
  IN  IF hits = {} THEN 0 ELSE CHOOSE i \in hits : \A j \in hits : i <= j

\* The intent keyword sets.  The matched words are listed in the iteration
\* order of the set, which is fixed for a process; here in the order of the
\* set display (the texts of the vocabulary match one intent word at most).
shopping_intent_keywords == <<"beli", "belanja", "bayar", "kasir", "order", "pesan", "purchase">>
food_intent_keywords == <<"makan", "minum", "jajan", "masak", "dapur", "dine", "delivery">>
transport_intent_keywords == <<"transport", "transportasi", "kendaraan", "perjalanan">>
travel_intent_keywords ==
  <<"travel", "liburan", "wisata", "tur", "tour", "trip", "holiday", "vacation", "jalan">>

RuleVerdict(category, confidence, explanation) ==
  [category |-> category, confidence |-> confidence, explanation |-> explanation]

\* apply_rule_based_classification, were the pass over the processed words the first.
apply_rule_based_classification_normfirst(text, trans_type) ==
  LET original_words == [i \in DOMAIN text |-> Lower(text[i])]
      processed_words == Split(preprocess_text(text))
      h1 == FirstKeyword(original_words, trans_type)
      h2 == FirstKeyword(processed_words, trans_type)
      word_set == Range(processed_words)
      matched(keywords) == SelectSeq(keywords, LAMBDA w : w \in word_set)
      intent(category, what, keywords) ==
        RuleVerdict(category, 900,
          <<"Category '", category, "' chosen based on general ", what, " terms: ">>
            \o matched(keywords))
  IN  IF h2 # 0 THEN
        LET word == processed_words[h2]
            category == KEYWORD_MAPPINGS[<<word>>]
        IN  RuleVerdict(category, 950,
              <<"Category '", category, "' chosen based on processed keyword '", word,
                "' (from '">> \o text \o <<"')">>)
      ELSE IF h1 # 0 THEN
        LET word == original_words[h1]
            category == KEYWORD_MAPPINGS[<<word>>]
        IN  RuleVerdict(category, 980,
              <<"Category '", category, "' chosen based on keyword '", word, "'">>)
      ELSE IF trans_type = "expense" /\ matched(shopping_intent_keywords) # <<>> THEN
        intent("Shopping", "purchase", shopping_intent_keywords)
      ELSE IF trans_type = "expense" /\ matched(food_intent_keywords) # <<>> THEN
        intent("Food & Dining", "food", food_intent_keywords)
      ELSE IF trans_type = "expense" /\ matched(transport_intent_keywords) # <<>> THEN
        intent("Transportation", "transport", transport_intent_keywords)
      ELSE IF trans_type = "expense" /\ matched(travel_intent_keywords) # <<>> THEN
        intent("Travel", "travel", travel_intent_keywords)
      ELSE RuleVerdict(None, 0, <<>>)

\* apply_rule_based_classification, were the travel intent tested first.
apply_rule_based_classification_travelfirst(text, trans_type) ==
  LET original_words == [i \in DOMAIN text |-> Lower(text[i])]
      processed_words == Split(preprocess_text(text))
      h1 == FirstKeyword(original_words, trans_type)
      h2 == FirstKeyword(processed_words, trans_type)
      word_set == Range(processed_words)
      matched(keywords) == SelectSeq(keywords, LAMBDA w : w \in word_set)
      intent(category, what, keywords) ==
        RuleVerdict(category, 900,
          <<"Category '", category, "' chosen based on general ", what, " terms: ">>
            \o matched(keywords))
  IN  IF h1 # 0 THEN
        LET word == original_words[h1]
            category == KEYWORD_MAPPINGS[<<word>>]
        IN  RuleVerdict(category, 980,
              <<"Category '", category, "' chosen based on keyword '", word, "'">>)
      ELSE IF h2 # 0 THEN
        LET word == processed_words[h2]
            category == KEYWORD_MAPPINGS[<<word>>]
        IN  RuleVerdict(category, 950,
              <<"Category '", category, "' chosen based on processed keyword '", word,
                "' (from '">> \o text \o <<"')">>)
      ELSE IF trans_type = "expense" /\ matched(travel_intent_keywords) # <<>> THEN
        intent("Travel", "travel", travel_intent_keywords)
      ELSE IF trans_type = "expense" /\ matched(shopping_intent_keywords) # <<>> THEN
        intent("Shopping", "purchase", shopping_intent_keywords)
      ELSE IF trans_type = "expense" /\ matched(food_intent_keywords) # <<>> THEN
        intent("Food & Dining", "food", food_intent_keywords)
      ELSE IF trans_type = "expense" /\ matched(transport_intent_keywords) # <<>> THEN
        intent("Transportation", "transport", transport_intent_keywords)
      ELSE RuleVerdict(None, 0, <<>>)

\* apply_rule_based_classification, were the intent sets consulted before the
\* pass over the processed words.
apply_rule_based_classification_intentfirst(text, trans_type) ==
  LET original_words == [i \in DOMAIN text |-> Lower(text[i])]
      processed_words == Split(preprocess_text(text))
      h1 == FirstKeyword(original_words, trans_type)
      h2 == FirstKeyword(processed_words, trans_type)
      word_set == Range(processed_words)
      matched(keywords) == SelectSeq(keywords, LAMBDA w : w \in word_set)
      intent(category, what, keywords) ==
        RuleVerdict(category, 900,
          <<"Category '", category, "' chosen based on general ", what, " terms: ">>
            \o matched(keywords))
  IN  IF h1 # 0 THEN
        LET word == original_words[h1]
            category == KEYWORD_MAPPINGS[<<word>>]
        IN  RuleVerdict(category, 980,
              <<"Category '", category, "' chosen based on keyword '", word, "'">>)
      ELSE IF trans_type = "expense" /\ matched(shopping_intent_keywords) # <<>> THEN
        intent("Shopping", "purchase", shopping_intent_keywords)
      ELSE IF trans_type = "expense" /\ matched(food_intent_keywords) # <<>> THEN
        intent("Food & Dining", "food", food_intent_keywords)
      ELSE IF trans_type = "expense" /\ matched(transport_intent_keywords) # <<>> THEN
        intent("Transportation", "transport", transport_intent_keywords)
      ELSE IF trans_type = "expense" /\ matched(travel_intent_keywords) # <<>> THEN
        intent("Travel", "travel", travel_intent_keywords)
      ELSE IF h2 # 0 THEN
        LET word == processed_words[h2]
            category == KEYWORD_MAPPINGS[<<word>>]
        IN  RuleVerdict(category, 950,
              <<"Category '", category, "' chosen based on processed keyword '", word,
                "' (from '">> \o text \o <<"')">>)
      ELSE RuleVerdict(None, 0, <<>>)

\* apply_rule_based_classification, were keys of two words looked up too.
apply_rule_based_classification_phrases(text, trans_type) ==
  LET original_words == [i \in DOMAIN text |-> Lower(text[i])]
      processed_words == Split(preprocess_text(text))
      pairs == {i \in 1..(Len(original_words) - 1) :
                  /\ <<original_words[i], original_words[i + 1]>> \in Keywords
                  /\ CategoryType(KEYWORD_MAPPINGS[<<original_words[i], original_words[i + 1]>>])
                       = trans_type}
      h1 == FirstKeyword(original_words, trans_type)
      h2 == FirstKeyword(processed_words, trans_type)
      word_set == Range(processed_words)
      matched(keywords) == SelectSeq(keywords, LAMBDA w : w \in word_set)
      intent(category, what, keywords) ==
        RuleVerdict(category, 900,
          <<"Category '", category, "' chosen based on general ", what, " terms: ">>
            \o matched(keywords))
  IN  IF pairs # {} THEN
        LET i == CHOOSE i \in pairs : \A j \in pairs : i <= j
            category == KEYWORD_MAPPINGS[<<original_words[i], original_words[i + 1]>>]
        IN  RuleVerdict(category, 980,
              <<"Category '", category, "' chosen based on keyword '",
                original_words[i] \o " " \o original_words[i + 1], "'">>)
      ELSE IF h1 # 0 THEN
        LET word == original_words[h1]
            category == KEYWORD_MAPPINGS[<<word>>]
        IN  RuleVerdict(category, 980,
              <<"Category '", category, "' chosen based on keyword '", word, "'">>)
      ELSE IF h2 # 0 THEN
        LET word == processed_words[h2]
            category == KEYWORD_MAPPINGS[<<word>>]
        IN  RuleVerdict(category, 950,
              <<"Category '", category, "' chosen based on processed keyword '", word,
                "' (from '">> \o text \o <<"')">>)
      ELSE IF trans_type = "expense" /\ matched(shopping_intent_keywords) # <<>> THEN
        intent("Shopping", "purchase", shopping_intent_keywords)
      ELSE IF trans_type = "expense" /\ matched(food_intent_keywords) # <<>> THEN
        intent("Food & Dining", "food", food_intent_keywords)
      ELSE IF trans_type = "expense" /\ matched(transport_intent_keywords) # <<>> THEN
        intent("Transportation", "transport", transport_intent_keywords)
      ELSE IF trans_type = "expense" /\ matched(travel_intent_keywords) # <<>> THEN
        intent("Travel", "travel", travel_intent_keywords)
      ELSE RuleVerdict(None, 0, <<>>)

apply_rule_based_classification(text, trans_type) ==
  LET original_words == [i \in DOMAIN text |-> Lower(text[i])]
      processed_words == Split(preprocess_text(text))
      h1 == FirstKeyword(original_words, trans_type)
      h2 == FirstKeyword(processed_words, trans_type)
      word_set == Range(processed_words)
      matched(keywords) == SelectSeq(keywords, LAMBDA w : w \in word_set)
      intent(category, what, keywords) ==
        RuleVerdict(category, 900,
          <<"Category '", category, "' chosen based on general ", what, " terms: ">>
            \o matched(keywords))
  IN  IF h1 # 0 THEN
        LET word == original_words[h1]
            category == KEYWORD_MAPPINGS[<<word>>]
        IN  RuleVerdict(category, 980,
              <<"Category '", category, "' chosen based on keyword '", word, "'">>)
      ELSE IF h2 # 0 THEN
        LET word == processed_words[h2]
            category == KEYWORD_MAPPINGS[<<word>>]
        IN  RuleVerdict(category, 950,
              <<"Category '", category, "' chosen based on processed keyword '", word,
                "' (from '">> \o text \o <<"')">>)
      ELSE IF trans_type = "expense" /\ matched(shopping_intent_keywords) # <<>> THEN
        intent("Shopping", "purchase", shopping_intent_keywords)
      ELSE IF trans_type = "expense" /\ matched(food_intent_keywords) # <<>> THEN
        intent("Food & Dining", "food", food_intent_keywords)
      ELSE IF trans_type = "expense" /\ matched(transport_intent_keywords) # <<>> THEN
        intent("Transportation", "transport", transport_intent_keywords)
      ELSE IF trans_type = "expense" /\ matched(travel_intent_keywords) # <<>> THEN
        intent("Travel", "travel", travel_intent_keywords)
      ELSE RuleVerdict(None, 0, <<>>)

\* sorted(pairs, key=lambda x: x[1], reverse=True): descending, equal keys
\* keep their order.
RECURSIVE SortedByConfidence(_)
SortedByConfidence(pairs) ==
  IF pairs = <<>> THEN <<>>
  ELSE LET front == SortedByConfidence(SubSeq(pairs, 1, Len(pairs) - 1))
           x == pairs[Len(pairs)]
           ahead == Cardinality({i \in DOMAIN front : front[i][2] >= x[2]})
       IN  SubSeq(front, 1, ahead) \o <<x>> \o SubSeq(front, ahead + 1, Len(front))

\* filter_categories_by_type without its sort.
filter_categories_by_type_unsorted(probabilities, transaction_type) ==
  LET all == [idx \in DOMAIN probabilities |-> <<id2label[idx], probabilities[idx]>>]
  IN  SelectSeq(all, LAMBDA p : /\ p[1] \in Categories
                                /\ CATEGORY_TYPES[p[1]] = transaction_type)

filter_categories_by_type(probabilities, transaction_type) ==
  LET all == [idx \in DOMAIN probabilities |-> <<id2label[idx], probabilities[idx]>>]
      filtered_categories ==
        SelectSeq(all, LAMBDA p : /\ p[1] \in Categories
                                  /\ CATEGORY_TYPES[p[1]] = transaction_type)
  IN  SortedByConfidence(filtered_categories)

\* s in processed_text
InText(s, processed_text) ==
  \E i \in DOMAIN processed_text : HasSubstring(processed_text[i], s)

\* generate_explanation, were the income cluster looked for first.
generate_explanation_incomefirst(category, processed_text, trans_type) ==
  LET because(terms) ==
        <<"Category '", category, "' was chosen because the description contains ",
          terms, "-related terms">>
  IN  IF \E s \in {"gaji", "salary"} : InText(s, processed_text)
        THEN because("income")
      ELSE IF \E s \in {"belanja", "shopping", "beli"} : InText(s, processed_text)
        THEN because("shopping")
      ELSE IF \E s \in {"makan", "food"} : InText(s, processed_text)
        THEN because("food")
      ELSE IF \E s \in {"transport", "gojek", "grab"} : InText(s, processed_text)
        THEN because("transportation")
      ELSE IF category = DEFAULT_CATEGORIES[trans_type]
        THEN <<"Default category '", category,
               "' was chosen because no high-confidence prediction was available">>
      ELSE <<"Category '", category,
             "' was chosen based on the transaction description and type">>

generate_explanation(category, processed_text, trans_type) ==
  LET because(terms) ==
        <<"Category '", category, "' was chosen because the description contains ",
          terms, "-related terms">>
  IN  IF \E s \in {"belanja", "shopping", "beli"} : InText(s, processed_text)
        THEN because("shopping")
      ELSE IF \E s \in {"makan", "food"} : InText(s, processed_text)
        THEN because("food")
      ELSE IF \E s \in {"transport", "gojek", "grab"} : InText(s, processed_text)
        THEN because("transportation")
      ELSE IF \E s \in {"gaji", "salary"} : InText(s, processed_text)
        THEN because("income")
      ELSE IF category = DEFAULT_CATEGORIES[trans_type]
        THEN <<"Default category '", category,
               "' was chosen because no high-confidence prediction was available">>
      ELSE <<"Category '", category,
             "' was chosen based on the transaction description and type">>

(***************************************************************************)
(* classify_transaction of moment-fastapi-app.py.                          *)
(***************************************************************************)
\* Truth value of an Optional[str].
Truthy(x) == x # None /\ x # ""

\* s[:n]
Take(s, n) == SubSeq(s, 1, Min(n, Len(s)))

\* f"{c:.2f}" of a confidence in thousandths (no level ends in 5).
Format2f(c) ==
  LET h == (c + 5) \div 10
  IN  ToString(h \div 100) \o "." \o ToString((h % 100) \div 10) \o ToString(h % 10)

NoData ==
  [category |-> None, confidence |-> 0, processed_text |-> <<>>,
   explanation |-> <<>>, suggestions |-> <<>>]

NoResponse == [code |-> 0, status |-> None, message |-> <<>>, error_code |-> None, data |-> NoData]

\* PredictionResponse(status="success", message=..., data={...}), sent as 200.
\* Its timestamp field (datetime.now) lies outside data and is left out.
Success(message, category, confidence, processed_text, explanation, suggestions) ==
  [code |-> 200, status |-> "success", message |-> <<message>>, error_code |-> None,
   data |-> [category |-> category, confidence |-> confidence,
             processed_text |-> processed_text, explanation |-> explanation,
             suggestions |-> suggestions]]

\* HTTPException(status_code=..., detail={"status": "error", ...})
HTTPException(status_code, message, error_code) ==
  [code |-> status_code, status |-> "error", message |-> message,
   error_code |-> error_code, data |-> NoData]

\* {"category": cat, "confidence": conf} for each ranked pair
Suggestions(pairs) ==
  [i \in DOMAIN pairs |-> [category |-> pairs[i][1], confidence |-> pairs[i][2]]]

\* suggestions.insert(0, rule suggestion) unless the category is listed
WithRuleSuggestion(suggestions, rule) ==
  IF \E i \in DOMAIN suggestions : suggestions[i].category = rule.category
    THEN suggestions
    ELSE <<[category |-> rule.category, confidence |-> rule.confidence]>> \o suggestions

\* What the handler did: its response and the components it invoked.
Handled(resp, invoked) == [response |-> resp, calls |-> invoked]

\* RuleDecides, were the intent verdicts too weak to decide.
RuleDecides_keywords(rule) == Truthy(rule.category) /\ rule.confidence >= 950

\* RuleDecides with a strict comparison.
RuleDecides_strict(rule) == Truthy(rule.category) /\ rule.confidence > 900

\* The request is answered by the rule alone.
RuleDecides(rule) == Truthy(rule.category) /\ rule.confidence >= 900

\* Lines 727-747: validation, the rule classifier, the short-circuit.
ClassifyByRule(req, rule) ==
  IF req.type \notin {"income", "expense"} THEN
    Handled(HTTPException(400,
              <<"Invalid transaction type: ", req.type, ". Must be 'income' or 'expense'">>,
              "VALIDATION_ERROR"), {})
  ELSE IF RuleDecides(rule) THEN
    Handled(Success("Transaction classified using rule-based matching",
                    rule.category, rule.confidence, preprocess_text(req.text),
                    rule.explanation, <<>>),
            {"rule", "normalizer"})
  ELSE Handled(NoResponse, {"rule", "normalizer"})

\* f"{processed_text_ml} [type:{request.type}]"
ContextText(req) == preprocess_text(req.text) \o <<"[type:" \o req.type \o "]">>

\* EmptyModelResponse, were the rule's confidence reported without the 0.1 floor.
EmptyModelResponse_nofloor(req, rule, processed_text_ml) ==
  LET default_category == DEFAULT_CATEGORIES[req.type]
  IN  Success("Using default category as no ML results matched type",
              default_category, rule.confidence, processed_text_ml,
              <<"Default category '", default_category,
                "' chosen because no ML predictions matched transaction type: ", req.type>>,
              <<>>)

\* Lines 769-796: no label of the requested type.
EmptyModelResponse(req, rule, processed_text_ml) ==
  LET default_category == DEFAULT_CATEGORIES[req.type]
  IN  IF Truthy(rule.category) THEN
        Success("Using rule-based category as ML fallback",
                rule.category, IF rule.confidence > 0 THEN rule.confidence ELSE 100,
                processed_text_ml,
                rule.explanation \o <<" (ML prediction failed for type '", req.type, "')">>,
                <<>>)
      ELSE
        Success("Using default category as no ML results matched type",
                default_category, 100, processed_text_ml,
                <<"Default category '", default_category,
                  "' chosen because no ML predictions matched transaction type: ", req.type>>,
                <<>>)

\* BelowThreshold with the threshold itself counted as below.
BelowThreshold_inclusive(final_confidence) == final_confidence <= CONFIDENCE_THRESHOLD

\* Line 822: final_confidence < CONFIDENCE_THRESHOLD
BelowThreshold(final_confidence) == final_confidence < CONFIDENCE_THRESHOLD

\* LowConfidenceResponse, were a fixed confidence reported with the default.
LowConfidenceResponse_fixed(req, rule, processed_text_ml, filtered_ml_categories, final_category, final_confidence) ==
  LET default_category == DEFAULT_CATEGORIES[req.type]
  IN  Success("Low confidence prediction, using default category",
              default_category, 100, processed_text_ml,
              <<"Default category '", default_category, "' chosen because confidence (",
                Format2f(final_confidence), ") was below threshold (", "0.4",
                "). ML suggested '", final_category, "'. ">>,
              Suggestions(Take(filtered_ml_categories, 3)))

\* Lines 823-847: the default category stands in for a weak prediction.
LowConfidenceResponse(req, rule, processed_text_ml, filtered_ml_categories, final_category, final_confidence) ==
  LET default_category == DEFAULT_CATEGORIES[req.type]
      differs == Truthy(rule.category) /\ rule.category # final_category
      ml_suggestions == Suggestions(Take(filtered_ml_categories, 3))
      suggestions ==
        IF differs /\ rule.category # default_category
          THEN WithRuleSuggestion(ml_suggestions, rule) ELSE ml_suggestions
  IN  Success("Low confidence prediction, using default category",
              default_category, final_confidence, processed_text_ml,
              <<"Default category '", default_category, "' chosen because confidence (",
                Format2f(final_confidence), ") was below threshold (", "0.4",
                "). ML suggested '", final_category, "'. ">>
                \o (IF differs THEN rule.explanation ELSE <<>>),
              Take(suggestions, 3))

\* HighConfidenceResponse, were the suggestions cut as in the low-confidence branch.
HighConfidenceResponse_top3(rule, processed_text_ml, filtered_ml_categories, final_category, final_confidence, final_explanation) ==
  LET differs == Truthy(rule.category) /\ rule.category # final_category
      next == Suggestions(Take(filtered_ml_categories, 3))
      suggestions == IF differs THEN WithRuleSuggestion(next, rule) ELSE next
  IN  Success("Transaction successfully classified",
              final_category, final_confidence, processed_text_ml,
              final_explanation, Take(suggestions, 3))

\* Lines 850-871: the prediction is accepted.
HighConfidenceResponse(rule, processed_text_ml, filtered_ml_categories, final_category, final_confidence, final_explanation) ==
  LET differs == Truthy(rule.category) /\ rule.category # final_category
      next == Suggestions(SubSeq(filtered_ml_categories, 2,
                                 Min(4, Len(filtered_ml_categories))))
      suggestions == IF differs THEN WithRuleSuggestion(next, rule) ELSE next
  IN  Success("Transaction successfully classified",
              final_category, final_confidence, processed_text_ml,
              final_explanation, Take(suggestions, 3))

\* Lines 798-871: the best model category, the rule's boost, the threshold.
RankedModelResponse(req, rule, processed_text_ml, filtered_ml_categories) ==
  LET best_ml_category == filtered_ml_categories[1][1]
      best_ml_confidence == filtered_ml_categories[1][2]
      final_category == best_ml_category
      boosted == Truthy(rule.category) /\ rule.category = best_ml_category
      final_confidence ==
        IF boosted /\ rule.confidence > best_ml_confidence
          THEN rule.confidence ELSE best_ml_confidence
      final_explanation ==
        IF boosted THEN rule.explanation
        ELSE generate_explanation(best_ml_category, processed_text_ml, req.type)
  IN  IF BelowThreshold(final_confidence) THEN
        LowConfidenceResponse(req, rule, processed_text_ml, filtered_ml_categories,
                              final_category, final_confidence)
      ELSE
        HighConfidenceResponse(rule, processed_text_ml, filtered_ml_categories,
                               final_category, final_confidence, final_explanation)

\* ClassifyByModel, were the branch for no label of the type to return nothing.
ClassifyByModel_fallthrough(req, rule, out) ==
  LET processed_text_ml == preprocess_text(req.text)
      filtered_ml_categories == filter_categories_by_type(out.proba, req.type)
  IN  IF out.raises = "ValueError" THEN
        Handled(HTTPException(400, <<"<str(ve)>">>, "VALIDATION_ERROR"),
                {"rule", "normalizer", "model"})
      ELSE IF out.raises # None THEN
        Handled(HTTPException(500, <<"Failed to classify transaction: ", "<str(e)>">>,
                              "CLASSIFICATION_ERROR"),
                {"rule", "normalizer", "model"})
      ELSE IF filtered_ml_categories = <<>> THEN
        Handled(NoResponse, {"rule", "normalizer", "model", "filter"})
      ELSE
        Handled(RankedModelResponse(req, rule, processed_text_ml, filtered_ml_categories),
                {"rule", "normalizer", "model", "filter", "explain"})

\* Lines 749-890: the model path, given what the network did.
ClassifyByModel(req, rule, out) ==
  LET processed_text_ml == preprocess_text(req.text)
      filtered_ml_categories == filter_categories_by_type(out.proba, req.type)
  IN  IF out.raises = "ValueError" THEN
        Handled(HTTPException(400, <<"<str(ve)>">>, "VALIDATION_ERROR"),
                {"rule", "normalizer", "model"})
      ELSE IF out.raises # None THEN
        Handled(HTTPException(500, <<"Failed to classify transaction: ", "<str(e)>">>,
                              "CLASSIFICATION_ERROR"),
                {"rule", "normalizer", "model"})
      ELSE IF filtered_ml_categories = <<>> THEN
        Handled(EmptyModelResponse(req, rule, processed_text_ml),
                {"rule", "normalizer", "model", "filter"})
      ELSE
        Handled(RankedModelResponse(req, rule, processed_text_ml, filtered_ml_categories),
                {"rule", "normalizer", "model", "filter", "explain"})

(***************************************************************************)
(* The network.                                                            *)
(***************************************************************************)
Returned(proba) == [raises |-> None, proba |-> proba]

Raised(exception) == [raises |-> exception, proba |-> <<>>]

NoOutcome == Raised("<not called>")

NoPredict == [input |-> <<>>, output |-> <<>>]

\* Predictions of a network that draws afresh on every call.
Predictions_fresh(input) == [DOMAIN id2label -> ProbLevels]

\* model.predict on an input: any vector over the labels; the vector it
\* returned before when the input is the one it saw last (the service
\* remembers this for as long as the client repeats its request).
Predictions(input) ==
  IF lastPredict.input = input THEN {lastPredict.output}
  ELSE [DOMAIN id2label -> ProbLevels]

\* tokenizer, pad_sequences and model.predict return a vector or raise.
ModelOutcomes(input) ==
  {Returned(p) : p \in Predictions(input)} \cup {Raised("ValueError"), Raised("Exception")}

NoRequest == [text |-> <<>>, spaces |-> FALSE, type |-> None]

NoVerdict == RuleVerdict(None, 0, <<>>)

(***************************************************************************)
(* ml-api.py: the model-only classifier.                                   *)
(***************************************************************************)
INCOME_CATEGORIES ==
  <<"Salary", "Freelance", "Investment", "Gift", "Refund", "Bonus", "Allowance",
    "Small Business", "Rental", "Dividend", "Pension", "Asset Sale", "Other">>

EXPENSE_CATEGORIES ==
  <<"Food & Dining", "Transportation", "Housing", "Utilities", "Internet & Phone",
    "Healthcare", "Entertainment", "Shopping", "Travel", "Education", "Debt Payment",
    "Charitable Giving", "Family Support", "Tax", "Insurance", "Subscriptions",
    "Personal Care", "Vehicle Maintenance", "Clothing", "Electronics", "Other">>

\* TextInputValid without validate_type.
TextInputValid_anytype(req) == req.text # <<>> \/ req.spaces

\* TextInput: text has min_length=1, validate_type accepts None and the two types.
TextInputValid(req) ==
  /\ req.text # <<>> \/ req.spaces
  /\ req.type \in {None, "income", "expense"}

\* np.argsort(pred): the indices in ascending order of probability, equal
\* probabilities in index order.
ArgSort(pred) ==
  LET before(i) == {j \in DOMAIN pred : pred[j] < pred[i] \/ (pred[j] = pred[i] /\ j < i)}
  IN  [k \in DOMAIN pred |-> CHOOSE i \in DOMAIN pred : Cardinality(before(i)) = k - 1]

Reverse(s) == [i \in DOMAIN s |-> s[Len(s) + 1 - i]]

\* predict_transaction, for a text with words: (label, confidence) is unused
\* by the caller, top_predictions are the three most probable labels.
predict_transaction(pred) ==
  LET sorted == ArgSort(pred)
      top_indices == Reverse(SubSeq(sorted, Len(sorted) - Min(3, Len(sorted)) + 1, Len(sorted)))
  IN  [i \in DOMAIN top_indices |-> <<id2label[top_indices[i]], pred[top_indices[i]]>>]

\* ErrorResponse(...) raised as HTTPException from predict_category
ApiError(status_code, error, details) ==
  [code |-> status_code, status |-> "error", message |-> <<error, details>>,
   error_code |-> None, data |-> NoData]

\* predict_category, were the three predictions kept when some are of the type.
predict_category_unfiltered(req, out) ==
  IF req.text = <<>> THEN
    \* predict_transaction returns a pair and the caller unpacks three values
    Handled(ApiError(422, "Validation error", "<str(e)>"), {})
  ELSE IF out.raises = "ValueError" THEN
    Handled(ApiError(422, "Validation error", "<str(e)>"), {"model"})
  ELSE IF out.raises # None THEN
    Handled(ApiError(500, "Internal server error", "An error occurred during prediction"),
            {"model"})
  ELSE
    LET top == predict_transaction(out.proba)
        valid_categories ==
          IF req.type = "income" THEN INCOME_CATEGORIES ELSE EXPENSE_CATEGORIES
        filtered_predictions == SelectSeq(top, LAMBDA p : p[1] \in Range(valid_categories))
        top_predictions ==
          IF ~Truthy(req.type) THEN top
          ELSE IF filtered_predictions # <<>> THEN top
          ELSE << <<"Other", 500>> >>
    IN  Handled([code |-> 200, status |-> "success", message |-> <<>>, error_code |-> None,
                 data |-> [primary_category |-> Suggestions(top_predictions)[1],
                           alternative_categories |->
                             Suggestions(SubSeq(top_predictions, 2, Len(top_predictions)))]],
                {"model"})

\* The body of predict_category, given what the network did.
predict_category(req, out) ==
  IF req.text = <<>> THEN
    \* predict_transaction returns a pair and the caller unpacks three values
    Handled(ApiError(422, "Validation error", "<str(e)>"), {})
  ELSE IF out.raises = "ValueError" THEN
    Handled(ApiError(422, "Validation error", "<str(e)>"), {"model"})
  ELSE IF out.raises # None THEN
    Handled(ApiError(500, "Internal server error", "An error occurred during prediction"),
            {"model"})
  ELSE
    LET top == predict_transaction(out.proba)
        valid_categories ==
          IF req.type = "income" THEN INCOME_CATEGORIES ELSE EXPENSE_CATEGORIES
        filtered_predictions == SelectSeq(top, LAMBDA p : p[1] \in Range(valid_categories))
        top_predictions ==
          IF ~Truthy(req.type) THEN top
          ELSE IF filtered_predictions # <<>> THEN filtered_predictions
          ELSE << <<"Other", 500>> >>
    IN  Handled([code |-> 200, status |-> "success", message |-> <<>>, error_code |-> None,
                 data |-> [primary_category |-> Suggestions(top_predictions)[1],
                           alternative_categories |->
                             Suggestions(SubSeq(top_predictions, 2, Len(top_predictions)))]],
                {"model"})

\* ApiPredict without the dependency verify_model_loaded.
ApiPredict_unverified(req, out) ==
  IF ~TextInputValid(req) THEN
    Handled(ApiError(422, "RequestValidationError", ""), {})
  ELSE predict_category(req, out)

\* POST /api/v1/predict: the dependency verify_model_loaded runs first, then
\* the body is validated, then predict_category runs.
ApiPredict(req, out) ==
  IF ~model_loaded THEN
    Handled(ApiError(503, "Model not loaded. Please try again later.", ""), {})
  ELSE IF ~TextInputValid(req) THEN
    Handled(ApiError(422, "RequestValidationError", ""), {})
  ELSE predict_category(req, out)

(***************************************************************************)
(* The services.                                                           *)
(***************************************************************************)
NoStemmer == [w \in {} |-> w]

NoHealth == [status |-> None, model |-> None]

\* The handler instances that can be in flight together.
Slots == {1, 2}

\* A handler instance that has no request.
IdleHandler ==
  [pc |-> "idle", request |-> NoRequest, rule_verdict |-> NoVerdict, outcome |-> NoOutcome,
   response |-> NoResponse, calls |-> {}]

\* health_check: ml-api.py reports its model, moment-fastapi-app.py only
\* that it runs.
health_check ==
  IF service = "api"
    THEN [status |-> IF model_loaded THEN "ok" ELSE "degraded",
          model |-> IF model_loaded THEN "healthy" ELSE "unavailable"]
    ELSE [status |-> "success", model |-> None]

\* moment-fastapi-app.py serves only when its artifacts were loaded: a failed
\* load raises RuntimeError from the module and nothing is served.
InitApp ==
  /\ service = "app"
  /\ model_loaded = TRUE
  /\ stemmer \in Stemmers
  /\ id2label \in LabelMaps

\* ml-api.py has no stemmer, and starts also when its artifacts fail to load.
InitApi ==
  /\ service = "api"
  /\ model_loaded \in BOOLEAN
  /\ stemmer = NoStemmer
  /\ id2label \in LabelMaps

InitRequest ==
  /\ pc = "idle"
  /\ request = NoRequest
  /\ rule_verdict = NoVerdict
  /\ outcome = NoOutcome
  /\ response = NoResponse
  /\ calls = {}
  /\ lastPredict = NoPredict
  /\ prev = NoData
  /\ health = NoHealth
  /\ handlers = [h \in Slots |-> IdleHandler]

\* moment-fastapi-app.py whose artifacts failed to load: the module raised
\* RuntimeError before the stemmer and the routes existed.
InitAborted ==
  /\ service = "app"
  /\ model_loaded = FALSE
  /\ stemmer = NoStemmer
  /\ id2label = <<>>
  /\ pc = "aborted"
  /\ request = NoRequest
  /\ rule_verdict = NoVerdict
  /\ outcome = NoOutcome
  /\ response = NoResponse
  /\ calls = {}
  /\ lastPredict = NoPredict
  /\ prev = NoData
  /\ health = NoHealth
  /\ handlers = [h \in Slots |-> IdleHandler]

Init == ((InitApp \/ InitApi) /\ InitRequest) \/ InitAborted

\* A client posts a request to /api/v1/classify.
Receive ==
  /\ service = "app"
  /\ pc = "idle"
  /\ \E text \in Texts, type \in RequestTypes, spaces \in BOOLEAN :
       /\ spaces => text = <<>>
       /\ request' = [text |-> text, spaces |-> spaces, type |-> type]
  /\ pc' = "received"
  /\ UNCHANGED <<service, model_loaded, stemmer, id2label, rule_verdict, outcome, response, calls,
                 lastPredict, prev, health, handlers>>

\* The client posts the request it has just been answered again.
Resubmit ==
  /\ service = "app"
  /\ pc = "done"
  /\ response.code = 200
  /\ prev' = response.data
  /\ pc' = "received"
  /\ rule_verdict' = NoVerdict
  /\ outcome' = NoOutcome
  /\ response' = NoResponse
  /\ calls' = {}
  /\ UNCHANGED <<service, model_loaded, stemmer, id2label, lastPredict, request, health, handlers>>

\* classify_transaction up to the model call: it answers, or goes on to the model.
RuleStep ==
  /\ service = "app"
  /\ pc = "received"
  /\ LET verdict == IF request.type \in {"income", "expense"}
                      THEN apply_rule_based_classification(request.text, request.type)
                      ELSE NoVerdict
         h == ClassifyByRule(request, verdict)
     IN  /\ rule_verdict' = verdict
         /\ response' = h.response
         /\ calls' = h.calls
         /\ pc' = IF h.response = NoResponse THEN "model" ELSE "done"
  /\ UNCHANGED <<service, model_loaded, stemmer, id2label, request, outcome, lastPredict, prev, health, handlers>>

\* The model call and the rest of classify_transaction.
ModelStep ==
  /\ service = "app"
  /\ pc = "model"
  /\ \E out \in ModelOutcomes(ContextText(request)) :
       LET h == ClassifyByModel(request, rule_verdict, out)
       IN  /\ outcome' = out
           /\ response' = h.response
           /\ calls' = h.calls
           /\ lastPredict' = IF out.raises = None
                               THEN [input |-> ContextText(request), output |-> out.proba]
                               ELSE lastPredict
  /\ pc' = "done"
  /\ UNCHANGED <<service, model_loaded, stemmer, id2label, request, rule_verdict, prev, health, handlers>>

\* ml-api.py never looks into the words of a text: it tells apart the empty
\* text, the blank one and the others, which are what the network is given.
ApiTexts == {text \in Texts : Len(text) <= 1}

\* A client posts a request to /api/v1/predict.
ApiReceive ==
  /\ service = "api"
  /\ pc = "idle"
  /\ \E text \in ApiTexts, type \in ApiRequestTypes, spaces \in BOOLEAN :
       /\ spaces => text = <<>>
       /\ request' = [text |-> text, spaces |-> spaces, type |-> type]
  /\ pc' = "received"
  /\ UNCHANGED <<service, model_loaded, stemmer, id2label, rule_verdict, outcome, response, calls,
                 lastPredict, prev, health, handlers>>

\* The request is answered by ml-api.py; the model is called only by
\* predict_category on a text with words.
ApiStep ==
  /\ service = "api"
  /\ pc = "received"
  /\ \E out \in IF model_loaded /\ TextInputValid(request) /\ request.text # <<>>
                  THEN ModelOutcomes(request.text) ELSE {NoOutcome} :
       LET h == ApiPredict(request, out)
       IN  /\ outcome' = out
           /\ response' = h.response
           /\ calls' = h.calls
  /\ pc' = "done"
  /\ UNCHANGED <<service, model_loaded, stemmer, id2label, request, rule_verdict,
                 lastPredict, prev, health, handlers>>

\* A client gets /api/v1/health.
HealthCheck ==
  /\ pc = "idle"
  /\ health' = health_check
  /\ pc' = "done"
  /\ UNCHANGED <<service, model_loaded, stemmer, id2label, request, rule_verdict, outcome,
                 response, calls, lastPredict, prev, handlers>>

\* The response has been delivered and the request is discarded.
Discard ==
  /\ pc = "done"
  /\ pc' = "idle"
  /\ request' = NoRequest
  /\ rule_verdict' = NoVerdict
  /\ outcome' = NoOutcome
  /\ response' = NoResponse
  /\ calls' = {}
  /\ prev' = NoData
  /\ lastPredict' = NoPredict
  /\ health' = NoHealth
  /\ UNCHANGED <<service, model_loaded, stemmer, id2label, handlers>>

Next == Receive \/ RuleStep \/ ModelStep \/ ApiReceive \/ ApiStep \/ HealthCheck \/ Discard

\* Both services, every request posted once.
Spec == Init /\ [][Next]_vars

NextRepeat == Receive \/ Resubmit \/ RuleStep \/ ModelStep \/ Discard

\* moment-fastapi-app.py with clients that repeat their requests.
InitRepeat == InitApp /\ InitRequest

SpecRepeat == InitRepeat /\ [][NextRepeat]_vars

\* Texts of one word at most.
ShortTexts == {text \in Texts : Len(text) <= 1}

\* A client posts a request with a short text to /api/v1/classify.
ReceiveShort ==
  /\ service = "app"
  /\ pc = "idle"
  /\ \E text \in ShortTexts, type \in RequestTypes :
       request' = [text |-> text, spaces |-> FALSE, type |-> type]
  /\ pc' = "received"
  /\ UNCHANGED <<service, model_loaded, stemmer, id2label, rule_verdict, outcome, response, calls,
                 lastPredict, prev, health, handlers>>

NextFair == ReceiveShort \/ RuleStep \/ ModelStep \/ Discard

\* moment-fastapi-app.py, where a handler that has been entered runs to its end.
SpecFair == InitRepeat /\ [][NextFair]_vars /\ WF_vars(RuleStep \/ ModelStep)

\* A client posts a text of the rule vocabulary to /api/v1/classify.
ReceiveRule ==
  /\ service = "app"
  /\ pc = "idle"
  /\ \E text \in RuleTexts, type \in RequestTypes :
       request' = [text |-> text, spaces |-> FALSE, type |-> type]
  /\ pc' = "received"
  /\ UNCHANGED <<service, model_loaded, stemmer, id2label, rule_verdict, outcome, response, calls,
                 lastPredict, prev, health, handlers>>

NextRule == ReceiveRule \/ RuleStep \/ ModelStep \/ Discard

\* moment-fastapi-app.py on the texts of the rule vocabulary.
SpecRule == InitRepeat /\ [][NextRule]_vars

\* moment-fastapi-app.py started with the six-label model.
InitRanked ==
  /\ service = "app"
  /\ model_loaded = TRUE
  /\ stemmer \in Stemmers
  /\ id2label \in RankedLabelMaps
  /\ InitRequest

\* A client posts a text of the explanation vocabulary to /api/v1/classify.
ReceiveExplain ==
  /\ service = "app"
  /\ pc = "idle"
  /\ \E text \in ExplainTexts, type \in RequestTypes :
       request' = [text |-> text, spaces |-> FALSE, type |-> type]
  /\ pc' = "received"
  /\ UNCHANGED <<service, model_loaded, stemmer, id2label, rule_verdict, outcome, response, calls,
                 lastPredict, prev, health, handlers>>

NextRanked == ReceiveExplain \/ RuleStep \/ ModelStep \/ Discard

\* moment-fastapi-app.py with the six-label model on the texts of the
\* explanation vocabulary.
SpecRanked == InitRanked /\ [][NextRanked]_vars

(***************************************************************************)
(* Handlers side by side.  classify_transaction is a coroutine without an  *)
(* await and runs on the event loop; predict_category is a plain function  *)
(* and runs on a thread of the pool.  Every interleaving of the handlers'  *)
(* steps is allowed here.                                                  *)
(***************************************************************************)
\* The texts posted to concurrent handlers.
ConcTexts == {<<>>, <<"Gaji">>, <<"for">>}

\* Locals, were the handler's parameters and local names module globals.
Locals_global(h) == handlers[1]

\* The parameters and local names of handler instance h.
Locals(h) == handlers[h]

\* The input ml-api.py gives the network.
ApiInput(req) == req.text

\* The input the running service gives the network for a request.
HandlerInput(req) == IF service = "app" THEN ContextText(req) ELSE ApiInput(req)

\* What the network returns to handler h: the vector a handler in flight got
\* on the same input, else any vector.
ConcPredictions(h, input) ==
  LET same == {g \in Slots \ {h} :
                 /\ handlers[g].outcome.raises = None
                 /\ HandlerInput(handlers[g].request) = input}
  IN  IF same # {} THEN {handlers[g].outcome.proba : g \in same}
      ELSE [DOMAIN id2label -> ProbLevels]

ConcOutcomes(h, input) ==
  {Returned(p) : p \in ConcPredictions(h, input)}
    \cup {Raised("ValueError"), Raised("Exception")}

\* A request reaches handler instance h.
ConcReceive(h) ==
  /\ pc = "idle"
  /\ handlers[h].pc = "idle"
  /\ \E text \in ConcTexts,
        type \in IF service = "app" THEN RequestTypes ELSE ApiRequestTypes :
       handlers' = [handlers EXCEPT ![h].request = [text |-> text, spaces |-> FALSE, type |-> type],
                                    ![h].pc = "received"]
  /\ UNCHANGED <<service, model_loaded, stemmer, id2label, pc, request, rule_verdict, outcome,
                 response, calls, lastPredict, prev, health>>

\* classify_transaction of instance h up to the model call.
ConcRuleStep(h) ==
  /\ service = "app"
  /\ handlers[h].pc = "received"
  /\ LET req == Locals(h).request
         verdict == IF req.type \in {"income", "expense"}
                      THEN apply_rule_based_classification(req.text, req.type)
                      ELSE NoVerdict
         r == ClassifyByRule(req, verdict)
     IN  handlers' = [handlers EXCEPT ![h].rule_verdict = verdict,
                                      ![h].response = r.response,
                                      ![h].calls = r.calls,
                                      ![h].pc = IF r.response = NoResponse
                                                  THEN "model" ELSE "done"]
  /\ UNCHANGED <<service, model_loaded, stemmer, id2label, pc, request, rule_verdict, outcome,
                 response, calls, lastPredict, prev, health>>

\* The model call of instance h and the rest of classify_transaction.
ConcModelStep(h) ==
  /\ service = "app"
  /\ handlers[h].pc = "model"
  /\ \E out \in ConcOutcomes(h, ContextText(Locals(h).request)) :
       LET r == ClassifyByModel(Locals(h).request, Locals(h).rule_verdict, out)
       IN  handlers' = [handlers EXCEPT ![h].outcome = out,
                                        ![h].response = r.response,
                                        ![h].calls = r.calls,
                                        ![h].pc = "done"]
  /\ UNCHANGED <<service, model_loaded, stemmer, id2label, pc, request, rule_verdict, outcome,
                 response, calls, lastPredict, prev, health>>

\* predict_category of instance h, with its dependency and validation.
ConcApiStep(h) ==
  /\ service = "api"
  /\ handlers[h].pc = "received"
  /\ LET req == Locals(h).request
     IN  \E out \in IF model_loaded /\ TextInputValid(req) /\ req.text # <<>>
                       THEN ConcOutcomes(h, ApiInput(req)) ELSE {NoOutcome} :
           LET r == ApiPredict(req, out)
           IN  handlers' = [handlers EXCEPT ![h].outcome = out,
                                            ![h].response = r.response,
                                            ![h].calls = r.calls,
                                            ![h].pc = "done"]
  /\ UNCHANGED <<service, model_loaded, stemmer, id2label, pc, request, rule_verdict, outcome,
                 response, calls, lastPredict, prev, health>>

\* The response of instance h has been delivered.
ConcDiscard(h) ==
  /\ handlers[h].pc = "done"
  /\ handlers' = [handlers EXCEPT ![h] = IdleHandler]
  /\ UNCHANGED <<service, model_loaded, stemmer, id2label, pc, request, rule_verdict, outcome,
                 response, calls, lastPredict, prev, health>>

NextConcurrent ==
  \E h \in Slots :
    ConcReceive(h) \/ ConcRuleStep(h) \/ ConcModelStep(h) \/ ConcApiStep(h) \/ ConcDiscard(h)

\* Both services, two handlers in flight.
SpecConcurrent == Init /\ [][NextConcurrent]_vars

(***************************************************************************)
(* Properties.                                                             *)
(***************************************************************************)
\* moment-fastapi-app.py has run the rule classifier for a request of a
\* recognised type.
AppRuled == service = "app" /\ pc \in {"model", "done"} /\ request.type \in {"income", "expense"}

\* moment-fastapi-app.py has answered a request of a recognised type.
AppAnswered == service = "app" /\ pc = "done" /\ request.type \in {"income", "expense"}

\* The answer is the rule's: a success carrying the verdict and nothing of the model.
RuleAnswer(verdict) ==
  /\ pc = "done"
  /\ response.code = 200
  /\ response.message = <<"Transaction classified using rule-based matching">>
  /\ response.data.category = verdict.category
  /\ response.data.confidence = verdict.confidence
  /\ response.data.explanation = verdict.explanation
  /\ response.data.suggestions = <<>>
  /\ calls \cap {"model", "filter", "explain"} = {}
  /\ outcome = NoOutcome

\* C1: whenever the rule classifier returns a category (at 0.98, 0.95 or
\* 0.90), classify_transaction answers at once with exactly that category,
\* confidence and explanation and no suggestions, and the model (tokenizer,
\* predict, filter_categories_by_type) is never invoked for the request.
C1_RuleShortCircuit ==
  (AppRuled /\ rule_verdict.category # None) => RuleAnswer(rule_verdict)

\* A request answered by the intent step, the lowest tier.
C1_Witness ==
  /\ AppAnswered
  /\ rule_verdict.confidence = 900
  /\ response.data.category = "Shopping"
  /\ response.data.confidence = 900

\* The words of the lowercased text hold the words of the key, in a row.
ContainsKeyword(text, key) ==
  \E i \in 1..(Len(text) - Len(key) + 1) :
    \A k \in DOMAIN key : Lower(text[i + k - 1]) = key[k]

\* C2 (as claimed): a request whose text contains a keyword of
\* KEYWORD_MAPPINGS whose category has the requested type is answered by the
\* rule classifier with confidence >= 0.90, never by the model or a default.
C2_KeywordAlwaysFires ==
  (/\ AppRuled
   /\ \E key \in Keywords :
        /\ CategoryType(KEYWORD_MAPPINGS[key]) = request.type
        /\ ContainsKeyword(request.text, key))
  => (RuleAnswer(rule_verdict) /\ response.data.confidence >= 900)

\* C3 (as claimed): "Payment for groceries", expense, is answered by the rule
\* classifier with "Food & Dining" at confidence >= 0.90.
C3_GroceriesAreFood ==
  (/\ AppAnswered
   /\ request.text = <<"Payment", "for", "groceries">>
   /\ request.type = "expense")
  => (/\ RuleAnswer(rule_verdict)
      /\ response.data.category = "Food & Dining"
      /\ response.data.confidence >= 900)

\* The positions of the lowercased words that are keywords of the requested type.
RawHits ==
  {i \in DOMAIN request.text :
     /\ <<Lower(request.text[i])>> \in Keywords
     /\ CategoryType(KEYWORD_MAPPINGS[<<Lower(request.text[i])>>]) = request.type}

\* C4: the first lowercased word that is a keyword whose category has the
\* requested type decides the verdict: its category, confidence 0.98, an
\* explanation naming it; later words and keywords of the other type never
\* do.  "Gaji bulanan", income, is answered "Salary" at 0.98 by the rule.
C4_RawTokenPass ==
  /\ (AppRuled /\ RawHits # {}) =>
        \E i \in RawHits :
          /\ \A j \in RawHits : i <= j
          /\ rule_verdict.category = KEYWORD_MAPPINGS[<<Lower(request.text[i])>>]
          /\ rule_verdict.confidence = 980
          /\ rule_verdict.explanation =
               <<"Category '", rule_verdict.category, "' chosen based on keyword '",
                 Lower(request.text[i]), "'">>
          /\ RuleAnswer(rule_verdict)
  /\ (AppAnswered /\ request.text = <<"Gaji", "bulanan">> /\ request.type = "income") =>
        /\ RuleAnswer(rule_verdict)
        /\ response.data.category = "Salary"
        /\ response.data.confidence = 980

\* Two keywords of the requested type with different categories, after a
\* keyword of the other type: the first of the two has decided.
C4_Witness ==
  /\ AppAnswered
  /\ request.text = <<"Gaji", "sale", "Payment">>
  /\ request.type = "expense"
  /\ response.data.category = "Shopping"
  /\ response.data.confidence = 980

\* The network returned a vector for a request no rule decided.
ModelAnswered ==
  /\ AppAnswered
  /\ outcome.raises = None
  /\ rule_verdict.category = None

\* The label indices whose category has the requested type.
Candidates == {idx \in DOMAIN id2label : CategoryType(id2label[idx]) = request.type}

\* 1 for the most probable candidate, 2 for the next, ...: equal
\* probabilities rank in label order.
Rank(idx) ==
  1 + Cardinality({j \in Candidates :
                     \/ outcome.proba[j] > outcome.proba[idx]
                     \/ outcome.proba[j] = outcome.proba[idx] /\ j < idx})

\* The top-ranked candidate.
Top == CHOOSE idx \in Candidates : Rank(idx) = 1

\* C5: the list filter_categories_by_type returns for the vector of the
\* network holds only categories whose CATEGORY_TYPES entry is the requested
\* type, holds every such label of the model exactly once with its
\* probability, and its probabilities never increase; "Clothing" is never
\* returned for income.
C5_NoCrossTypeLeakage ==
  (AppAnswered /\ outcome.raises = None) =>
    LET ranked == filter_categories_by_type(outcome.proba, request.type)
    IN  /\ \A i \in DOMAIN ranked : CategoryType(ranked[i][1]) = request.type
        /\ Len(ranked) = Cardinality(Candidates)
        /\ \A idx \in Candidates :
             Cardinality({i \in DOMAIN ranked :
                            ranked[i] = <<id2label[idx], outcome.proba[idx]>>}) = 1
        /\ \A i \in DOMAIN ranked : \A j \in DOMAIN ranked :
             i < j => ranked[i][2] >= ranked[j][2]
        /\ request.type = "income" => \A i \in DOMAIN ranked : ranked[i][1] # "Clothing"

\* Income, labels Salary, Crypto, Bonus, Clothing: the two labels that are not
\* income categories are left out and Bonus overtakes Salary.
C5_Witness ==
  /\ AppAnswered
  /\ request.type = "income"
  /\ id2label = <<"Salary", "Crypto", "Bonus", "Clothing">>
  /\ outcome = Returned(<<200, 400, 400, 400>>)
  /\ response.data.category = "Bonus"
  /\ response.data.suggestions = <<[category |-> "Salary", confidence |-> 200]>>

\* C6: with no rule verdict, a top-ranked candidate at exactly
\* CONFIDENCE_THRESHOLD (0.4) is accepted as the category with its own
\* confidence; the default category is substituted only below 0.4.
C6_ThresholdInclusive ==
  (ModelAnswered /\ Candidates # {}) =>
    /\ outcome.proba[Top] = CONFIDENCE_THRESHOLD =>
         /\ response.message = <<"Transaction successfully classified">>
         /\ response.data.category = id2label[Top]
         /\ response.data.confidence = CONFIDENCE_THRESHOLD
    /\ response.message = <<"Low confidence prediction, using default category">> =>
         outcome.proba[Top] < CONFIDENCE_THRESHOLD

\* A candidate at exactly 0.4 that is not the default category was accepted.
C6_Witness ==
  /\ ModelAnswered
  /\ Candidates # {}
  /\ outcome.proba[Top] = 400
  /\ response.data.category = "Travel"
  /\ response.data.confidence = 400

\* C7: with no rule verdict and a top-ranked candidate of confidence c < 0.4,
\* the category is the default of the type ("Other"), the reported confidence
\* is c, the explanation names the default and the rejected candidate, and
\* the suggestions are the three (or fewer) best candidates in rank order.
C7_LowConfidenceSubstitution ==
  (ModelAnswered /\ Candidates # {} /\ outcome.proba[Top] < CONFIDENCE_THRESHOLD) =>
    /\ response.code = 200
    /\ response.data.category = "Other"
    /\ response.data.category = DEFAULT_CATEGORIES[request.type]
    /\ response.data.confidence = outcome.proba[Top]
    /\ response.data.explanation[1] = "Default category '"
    /\ response.data.explanation[2] = "Other"
    /\ response.data.explanation[7] = "). ML suggested '"
    /\ response.data.explanation[8] = id2label[Top]
    /\ Len(response.data.suggestions) = Min(3, Cardinality(Candidates))
    /\ \A idx \in Candidates :
         Rank(idx) <= 3 =>
           response.data.suggestions[Rank(idx)] =
             [category |-> id2label[idx], confidence |-> outcome.proba[idx]]

\* Expense, four expense labels all at 0.2: "Other" stands in for the
\* rejected "Travel" at 0.2 and the fourth candidate is not suggested.
C7_Witness ==
  /\ ModelAnswered
  /\ request.type = "expense"
  /\ Cardinality(Candidates) = 4
  /\ outcome.proba[Top] = 200
  /\ response.data.category = "Other"
  /\ response.data.confidence = 200
  /\ response.data.explanation[8] = "Travel"
  /\ Len(response.data.suggestions) = 3

\* C8: with no rule verdict and no model label of the requested type, the
\* category is DEFAULT_CATEGORIES[type] = "Other" at the fixed confidence 0.1,
\* with no suggestions and the default message and explanation.
C8_EmptyModelFallback ==
  (ModelAnswered /\ Candidates = {}) =>
    /\ response.code = 200
    /\ response.message = <<"Using default category as no ML results matched type">>
    /\ response.data.category = "Other"
    /\ response.data.category = DEFAULT_CATEGORIES[request.type]
    /\ response.data.confidence = 100
    /\ response.data.suggestions = <<>>
    /\ response.data.explanation =
         <<"Default category '", "Other",
           "' chosen because no ML predictions matched transaction type: ", request.type>>

\* Income with a model whose labels are all expense categories.
C8_Witness ==
  /\ ModelAnswered
  /\ request.type = "income"
  /\ id2label = <<"Travel", "Clothing", "Food & Dining", "Other">>
  /\ filter_categories_by_type(outcome.proba, request.type) = <<>>
  /\ response.data.category = "Other"
  /\ response.data.confidence = 100

InvalidType == request.type \notin {None, "income", "expense"}

\* Nothing ran for the request and it carries no classification.
NothingRan ==
  /\ calls = {}
  /\ outcome = NoOutcome
  /\ response.status = "error"
  /\ response.data = NoData

\* C10 (as claimed): a request whose type is neither "income" nor "expense"
\* is answered with a validation error (400 VALIDATION_ERROR by
\* moment-fastapi-app, a validator error by ml-api) and nothing runs for it.
C10_InvalidTypeIsValidationError ==
  (pc = "done" /\ InvalidType) =>
    /\ service = "app" => response.code = 400 /\ response.error_code = "VALIDATION_ERROR"
    /\ service = "api" => response.code = 422
    /\ NothingRan

\* C10 (amended): such a request is answered 400 VALIDATION_ERROR by
\* moment-fastapi-app; by ml-api it is answered with the validator's 422 when
\* the model was loaded and with 503 when it was not; in every case neither
\* the rule classifier, the normalizer nor the model runs and no
\* classification is returned.
C10_InvalidTypeRejected ==
  (pc = "done" /\ InvalidType) =>
    /\ service = "app" =>
         /\ response.code = 400
         /\ response.error_code = "VALIDATION_ERROR"
         /\ response.message =
              <<"Invalid transaction type: ", request.type, ". Must be 'income' or 'expense'">>
    /\ (service = "api" /\ model_loaded) =>
         /\ response.code = 422
         /\ response.message = <<"RequestValidationError", "">>
    /\ (service = "api" /\ ~model_loaded) => response.code = 503
    /\ NothingRan

\* ml-api, its model loaded, has turned down a request of type "transfer".
C10_Witness ==
  /\ service = "api"
  /\ model_loaded
  /\ pc = "done"
  /\ request.type = "transfer"
  /\ request.text # <<>>
  /\ response.code = 422
  /\ calls = {}

\* A request was answered (and not a health probe).
Answered == pc = "done" /\ response # NoResponse

\* C11 (as claimed): a request whose text is empty or blank is answered with
\* a validation error, never with a successful classification, by both
\* services (their model being loaded, and not failing if it is called).
C11_EmptyTextRejected ==
  (/\ Answered
   /\ model_loaded
   /\ outcome.raises \notin {"ValueError", "Exception"}
   /\ request.text = <<>>
   /\ request.type \in {"income", "expense"}) =>
    /\ response.status = "error"
    /\ response.code \in {400, 422}
    /\ response.data = NoData

\* C12 (as claimed): when the model call (tokenizer, padding, predict) raises,
\* whatever the class of the exception, the request is answered with a
\* server error (500), never with a validation error or a success, and the
\* model is called once.
C12_InferenceFailureIsServerError ==
  (Answered /\ outcome.raises \in {"ValueError", "Exception"}) =>
    /\ response.code = 500
    /\ response.status = "error"
    /\ response.data = NoData

\* C13: when loading the artifacts failed at startup, no request is ever
\* answered with a success and nothing runs for it: ml-api answers 503 and
\* its health check reports "degraded" with the model "unavailable";
\* moment-fastapi-app has aborted and answers nothing; and the load is never
\* tried again.
C13_FailedStartupNotServed ==
  /\ [](~model_loaded =>
          /\ response.status # "success"
          /\ calls = {}
          /\ outcome = NoOutcome
          /\ service = "api" =>
               /\ Answered => response.code = 503
               /\ health # NoHealth =>
                    health = [status |-> "degraded", model |-> "unavailable"]
          /\ service = "app" =>
               /\ pc = "aborted"
               /\ response = NoResponse
               /\ health = NoHealth)
  /\ [][model_loaded' = model_loaded]_vars

\* ml-api, its model missing, has turned down a well-formed request.
C13_Witness ==
  /\ service = "api"
  /\ ~model_loaded
  /\ Answered
  /\ request.text # <<>>
  /\ request.type = "expense"
  /\ response.code = 503

\* A success that carries a whole result.
CompleteSuccess ==
  /\ response.code = 200
  /\ response.status = "success"
  /\ response.message # <<>>
  /\ response.error_code = None
  /\ Truthy(response.data.category)
  /\ response.data.confidence \in 1..1000
  /\ response.data.explanation # <<>>
  /\ Len(response.data.suggestions) \in 0..3

\* An error that carries no result.
ErrorOnly ==
  /\ response.code \in {400, 500}
  /\ response.status = "error"
  /\ response.message # <<>>
  /\ Truthy(response.error_code)
  /\ response.data = NoData

\* C14: every request classify_transaction takes up ends, and ends in one
\* response that is either a success with a whole result (category,
\* confidence, explanation, suggestions) or an error without a result; a
\* response once given is not replaced, and the model is called at most once.
C14_ExactlyOneOutcome ==
  /\ []((service = "app" /\ pc = "done" /\ health = NoHealth) =>
          (CompleteSuccess \/ ErrorOnly))
  /\ []((service = "app" /\ pc \in {"received", "model"}) => response = NoResponse)
  /\ [][(service = "app" /\ response # NoResponse) => response' = NoResponse]_vars
  /\ (service = "app" /\ pc \in {"received", "model"}) ~> (pc = "done")

\* A request that went through the model and was answered with a ranked
\* category and suggestions.
C14_Witness ==
  /\ AppAnswered
  /\ CompleteSuccess
  /\ "explain" \in calls
  /\ response.message = <<"Transaction successfully classified">>
  /\ Len(response.data.suggestions) = 3

\* The response a request gets from a service that handles nothing else.
Alone(req, verdict, out) ==
  IF service = "api" THEN ApiPredict(req, out).response
  ELSE IF ClassifyByRule(req, verdict).response # NoResponse
    THEN ClassifyByRule(req, verdict).response
  ELSE ClassifyByModel(req, verdict, out).response

\* The verdict of the rule classifier on a request of moment-fastapi-app.
VerdictOf(req) ==
  IF service = "app" /\ req.type \in {"income", "expense"}
    THEN apply_rule_based_classification(req.text, req.type)
    ELSE NoVerdict

\* C15: however the steps of handlers in flight interleave, no step writes
\* the shared artifacts (the model, the stemmer, the label map, model_loaded;
\* the tables are constants), every answered request has the response it
\* gets when it is handled alone, and equal requests on which the network
\* did not fail have equal responses.
C15_RequestsIndependent ==
  /\ [][UNCHANGED <<service, model_loaded, stemmer, id2label>>]_vars
  /\ [](\A h \in Slots :
          handlers[h].pc = "done" =>
            handlers[h].response =
              Alone(handlers[h].request, VerdictOf(handlers[h].request), handlers[h].outcome))
  /\ [](\A g \in Slots : \A h \in Slots :
          (/\ handlers[g].pc = "done"
           /\ handlers[h].pc = "done"
           /\ handlers[g].request = handlers[h].request
           /\ handlers[g].outcome.raises \notin {"ValueError", "Exception"}
           /\ handlers[h].outcome.raises \notin {"ValueError", "Exception"})
          => handlers[g].response = handlers[h].response)

\* Two requests in flight together were answered by the model with
\* different categories.
C15_Witness ==
  /\ handlers[1].pc = "done"
  /\ handlers[2].pc = "done"
  /\ handlers[1].request # handlers[2].request
  /\ "model" \in handlers[1].calls
  /\ "model" \in handlers[2].calls
  /\ handlers[1].response.code = 200
  /\ handlers[2].response.code = 200
  /\ handlers[1].response.data # handlers[2].response.data

\* The category of the last item of KEYWORD_MAPPINGS declared with the key.
LastDeclared(key) ==
  LET at == {i \in DOMAIN KEYWORD_MAPPINGS_ITEMS : KEYWORD_MAPPINGS_ITEMS[i][1] = key}
  IN  KEYWORD_MAPPINGS_ITEMS[CHOOSE i \in at : \A j \in at : j <= i][2]

\* The keys KEYWORD_MAPPINGS declares more than once.
DuplicatedKeys ==
  {<<"sewa">>, <<"gas">>, <<"phone">>, <<"tiket">>, <<"toko">>, <<"kontrakan">>, <<"kos">>,
   <<"anak">>, <<"buku">>, <<"musik">>, <<"hadiah">>, <<"gift">>}

NormWords == Split(preprocess_text(request.text))

\* The positions of the normalized words that are keywords of the requested type.
NormHits ==
  {i \in DOMAIN NormWords :
     /\ <<NormWords[i]>> \in Keywords
     /\ CategoryType(KEYWORD_MAPPINGS[<<NormWords[i]>>]) = request.type}

\* C17: the pass over the normalized words decides only when no raw word
\* matched; when a raw word and a different normalized word both match, the
\* raw match is returned at 0.98; a match of the normalized pass is returned
\* at 0.95 with the first matching normalized word as its trigger.
C17_PassOrdering ==
  AppRuled =>
    /\ RawHits # {} => rule_verdict.confidence = 980
    /\ rule_verdict.confidence = 950 => (RawHits = {} /\ NormHits # {})
    /\ (RawHits = {} /\ NormHits # {}) =>
         \E i \in NormHits :
           /\ \A j \in NormHits : i <= j
           /\ rule_verdict.category = KEYWORD_MAPPINGS[<<NormWords[i]>>]
           /\ rule_verdict.confidence = 950
           /\ rule_verdict.explanation =
                <<"Category '", rule_verdict.category, "' chosen based on processed keyword '",
                  NormWords[i], "' (from '">> \o request.text \o <<"')">>
           /\ RuleAnswer(rule_verdict)

\* "groceries sale": the stem "grocery" comes first and is a keyword, yet
\* the raw word "sale" has decided at 0.98.
C17_Witness ==
  /\ AppAnswered
  /\ request.text = <<"groceries", "sale">>
  /\ request.type = "expense"
  /\ NormWords = <<"grocery", "sale">>
  /\ response.data.category = "Shopping"
  /\ response.data.confidence = 980

\* Some normalized word of the request is one of the intent keywords.
IntentOverlap(keywords) == \E i \in DOMAIN keywords : keywords[i] \in Range(NormWords)

\* The verdict is the intent verdict of the category.
IntentVerdict(category) ==
  /\ rule_verdict.category = category
  /\ rule_verdict.confidence = 900
  /\ RuleAnswer(rule_verdict)

\* C18: the intent sets are consulted only when neither keyword pass matched
\* and the type is expense; they are tested in the order shopping, food,
\* transport, travel, and the first set that shares a word with the normalized
\* words decides at 0.90, whatever later sets share.
C18_IntentStep ==
  AppRuled =>
    /\ rule_verdict.confidence = 900 =>
         (RawHits = {} /\ NormHits = {} /\ request.type = "expense")
    /\ (RawHits = {} /\ NormHits = {} /\ request.type = "income") =>
         rule_verdict = RuleVerdict(None, 0, <<>>)
    /\ (RawHits = {} /\ NormHits = {} /\ request.type = "expense") =>
         IF IntentOverlap(shopping_intent_keywords) THEN IntentVerdict("Shopping")
         ELSE IF IntentOverlap(food_intent_keywords) THEN IntentVerdict("Food & Dining")
         ELSE IF IntentOverlap(transport_intent_keywords) THEN IntentVerdict("Transportation")
         ELSE IF IntentOverlap(travel_intent_keywords) THEN IntentVerdict("Travel")
         ELSE rule_verdict = RuleVerdict(None, 0, <<>>)

\* "purchase, trip": the shopping set and the travel set both share a word
\* with the text, and the answer is Shopping.
C18_Witness ==
  /\ AppAnswered
  /\ request.type = "expense"
  /\ RawHits = {}
  /\ NormHits = {}
  /\ IntentOverlap(shopping_intent_keywords)
  /\ IntentOverlap(travel_intent_keywords)
  /\ response.data.category = "Shopping"
  /\ response.data.confidence = 900
  /\ response.data.explanation =
       <<"Category '", "Shopping", "' chosen based on general ", "purchase", " terms: ",
         "purchase">>

\* C19: the verdict is either (None, 0.0, "") or a category at 0.98, 0.95 or
\* 0.90; the category is None exactly when the confidence is 0.0; a category
\* returned is of the requested type.
C19_VerdictShape ==
  AppRuled =>
    /\ \/ rule_verdict = RuleVerdict(None, 0, <<>>)
       \/ (rule_verdict.category # None /\ rule_verdict.confidence \in {980, 950, 900})
    /\ (rule_verdict.category = None) <=> (rule_verdict.confidence = 0)
    /\ rule_verdict.category # None => CategoryType(rule_verdict.category) = request.type

\* "Gaji sale" as an expense: the income keyword is passed over and the
\* verdict is the expense category of the second word.
C19_Witness ==
  /\ AppRuled
  /\ request.text = <<"Gaji", "sale">>
  /\ request.type = "expense"
  /\ CategoryType(KEYWORD_MAPPINGS[<<"gaji">>]) = "income"
  /\ rule_verdict.category = "Shopping"
  /\ rule_verdict.confidence = 980

\* The lowered words of the request, without punctuation.
CleanWords == Split([i \in DOMAIN request.text |-> StripPunct(Lower(request.text[i]))])

\* The stemmer raises on some word of the request that it is asked about.
StemmerFails ==
  \E i \in DOMAIN CleanWords :
    CleanWords[i] \notin FinancialTerms /\ stemmer[CleanWords[i]] = StemRaises

\* C20: a word the stemmer raises on is kept as it is, the words after it
\* are processed in their order, and the request does not fail for it (only
\* a raising model fails a request); a financial term is replaced by its
\* canonical form, whatever the stemmer would make of it.
C20_StemmerFailureRecovered ==
  AppAnswered =>
    /\ response.code # 200 => outcome.raises # None
    /\ response.code = 200 =>
         /\ Len(response.data.processed_text) = Len(CleanWords)
         /\ \A i \in DOMAIN CleanWords :
              response.data.processed_text[i] =
                IF CleanWords[i] \in FinancialTerms THEN FINANCIAL_TERMS[CleanWords[i]]
                ELSE IF stemmer[CleanWords[i]] = StemRaises THEN CleanWords[i]
                ELSE stemmer[CleanWords[i]]

\* "Payment bulanan groceries" with the stemmer that raises on "bulanan" and
\* would shorten "payment": the answer is a success whose processed text
\* keeps "payment" and "bulanan" and stems the word after them.
C20_Witness ==
  /\ AppAnswered
  /\ StemmerFails
  /\ request.text = <<"Payment", "bulanan", "groceries">>
  /\ stemmer["payment"] = "pay"
  /\ response.code = 200
  /\ response.data.processed_text = <<"payment", "bulanan", "grocery">>


\* The place of a category in the catalog: a dict keeps a key where it was
\* first declared.
CatalogPosition(category) ==
  CHOOSE i \in DOMAIN CATEGORY_TYPES_ITEMS :
    /\ CATEGORY_TYPES_ITEMS[i][1] = category
    /\ \A j \in DOMAIN CATEGORY_TYPES_ITEMS : CATEGORY_TYPES_ITEMS[j][1] = category => i <= j

\* C21 (as claimed): of two categories of the requested type with equal
\* probability, filter_categories_by_type places first the one the catalog
\* declares earlier, whatever the label map of the model.
C21_TiesInCatalogOrder ==
  (AppAnswered /\ outcome.raises = None) =>
    LET ranked == filter_categories_by_type(outcome.proba, request.type)
    IN  \A i \in DOMAIN ranked : \A j \in DOMAIN ranked :
          (i < j /\ ranked[i][2] = ranked[j][2]) =>
            CatalogPosition(ranked[i][1]) < CatalogPosition(ranked[j][1])


\* C22: with no rule verdict and a top-ranked candidate at 0.4 or more, the
\* category and the confidence are the top-ranked candidate's and the
\* suggestions are the candidates ranked 2 to 4: three at most, their
\* confidences never increasing, the winner not among them.
C22_AcceptedPrediction ==
  (ModelAnswered /\ Candidates # {} /\ outcome.proba[Top] >= CONFIDENCE_THRESHOLD) =>
    LET suggestions == response.data.suggestions
    IN  /\ response.code = 200
        /\ response.message = <<"Transaction successfully classified">>
        /\ response.data.category = id2label[Top]
        /\ response.data.confidence = outcome.proba[Top]
        /\ Len(suggestions) = Min(3, Cardinality(Candidates) - 1)
        /\ \A idx \in Candidates :
             (2 <= Rank(idx) /\ Rank(idx) <= 4) =>
               suggestions[Rank(idx) - 1] =
                 [category |-> id2label[idx], confidence |-> outcome.proba[idx]]
        /\ \A i \in DOMAIN suggestions : \A j \in DOMAIN suggestions :
             i < j => suggestions[i].confidence >= suggestions[j].confidence
        /\ \A i \in DOMAIN suggestions : suggestions[i].category # response.data.category

\* Five expense labels, "Food & Dining" and "Shopping" at 0.4: the first is
\* accepted, the second is the first suggestion and the last-ranked label is
\* not suggested.
C22_Witness ==
  /\ ModelAnswered
  /\ request.type = "expense"
  /\ Cardinality(Candidates) = 5
  /\ outcome = Returned(<<200, 200, 400, 400, 200, 400>>)
  /\ response.data.category = "Food & Dining"
  /\ response.data.confidence = 400
  /\ response.data.suggestions =
       <<[category |-> "Shopping", confidence |-> 400],
         [category |-> "Travel", confidence |-> 200],
         [category |-> "Clothing", confidence |-> 200]>>


\* Some normalized word of the request has one of the terms in it.
ClusterFound(terms) ==
  \E i \in DOMAIN NormWords : \E s \in terms : HasSubstring(NormWords[i], s)

\* The sentence of a cluster.
ClusterSentence(category, terms) ==
  <<"Category '", category, "' was chosen because the description contains ",
    terms, "-related terms">>

\* C23: the explanation of an accepted prediction is the sentence of the
\* first cluster found in the normalized text, the clusters taken in the
\* order shopping, food, transport, income; with no cluster found it is the
\* "default chosen" sentence when the category is the default of the type and
\* the generic sentence otherwise.
C23_ExplanationClusterOrder ==
  (ModelAnswered /\ Candidates # {} /\ outcome.proba[Top] >= CONFIDENCE_THRESHOLD) =>
    LET category == id2label[Top]
    IN  response.data.explanation =
          IF ClusterFound({"belanja", "shopping", "beli"})
            THEN ClusterSentence(category, "shopping")
          ELSE IF ClusterFound({"makan", "food"})
            THEN ClusterSentence(category, "food")
          ELSE IF ClusterFound({"transport", "gojek", "grab"})
            THEN ClusterSentence(category, "transportation")
          ELSE IF ClusterFound({"gaji", "salary"})
            THEN ClusterSentence(category, "income")
          ELSE IF category = DEFAULT_CATEGORIES[request.type]
            THEN <<"Default category '", category,
                   "' was chosen because no high-confidence prediction was available">>
          ELSE <<"Category '", category,
                 "' was chosen based on the transaction description and type">>

\* "Gaji GrabBike" as an expense: no rule fires, the income cluster comes
\* first in the text and the transport cluster is the one reported.
C23_Witness ==
  /\ ModelAnswered
  /\ request.text = <<"Gaji", "GrabBike">>
  /\ request.type = "expense"
  /\ ClusterFound({"gaji", "salary"})
  /\ ClusterFound({"transport", "gojek", "grab"})
  /\ response.message = <<"Transaction successfully classified">>
  /\ response.data.explanation = ClusterSentence(response.data.category, "transportation")


\* ml-api.py has answered a request of a given type with a prediction.
ApiPredicted ==
  /\ service = "api"
  /\ pc = "done"
  /\ response.code = 200
  /\ request.type \in {"income", "expense"}

\* The category list of the requested type in ml-api.py.
TypeList == IF request.type = "income" THEN Range(INCOME_CATEGORIES) ELSE Range(EXPENSE_CATEGORIES)

\* The label indices of the three most probable labels.
TopThree ==
  {idx \in DOMAIN id2label :
     Cardinality({j \in DOMAIN id2label :
                    \/ outcome.proba[j] > outcome.proba[idx]
                    \/ outcome.proba[j] = outcome.proba[idx] /\ j > idx}) < 3}

\* The categories of the response, the primary first.
Answers == <<response.data.primary_category>> \o response.data.alternative_categories

\* C24: with a type given, every category of the ml-api response is in the
\* list of that type and is one of the three most probable labels with its
\* probability, the confidences never increase, and there are one primary and
\* two alternatives at most; with none of the three in the list the response
\* is ("Other", 0.5) alone.
C24_ApiTypeFilter ==
  ApiPredicted =>
    /\ \A i \in DOMAIN Answers : Answers[i].category \in TypeList
    /\ \A i \in DOMAIN Answers : \A j \in DOMAIN Answers :
         i < j => Answers[i].confidence >= Answers[j].confidence
    /\ Len(response.data.alternative_categories) <= 2
    /\ IF \E idx \in TopThree : id2label[idx] \in TypeList
         THEN /\ Len(Answers) = Cardinality({idx \in TopThree : id2label[idx] \in TypeList})
              /\ \A i \in DOMAIN Answers :
                   \E idx \in TopThree :
                     Answers[i] = [category |-> id2label[idx], confidence |-> outcome.proba[idx]]
         ELSE Answers = <<[category |-> "Other", confidence |-> 500]>>

\* Income, labels Salary, Crypto, Bonus, Clothing: of the three most probable
\* labels Bonus, Salary and Clothing, the expense label is left out.
C24_Witness ==
  /\ ApiPredicted
  /\ request.type = "income"
  /\ id2label = <<"Salary", "Crypto", "Bonus", "Clothing">>
  /\ outcome = Returned(<<400, 200, 400, 200>>)
  /\ response.data.primary_category = [category |-> "Bonus", confidence |-> 400]
  /\ response.data.alternative_categories = <<[category |-> "Salary", confidence |-> 400]>>

\* The labels of the model that are in the list of the requested type.
TypeLabels == {idx \in DOMAIN id2label : id2label[idx] \in TypeList}

\* C25 (as claimed): with a type given and a label of that type among the
\* labels of the model, the primary category of ml-api is the most probable
\* label of that type; ("Other", 0.5) is answered only when the model has no
\* label of that type.
C25_ApiBestOfType ==
  ApiPredicted =>
    /\ TypeLabels # {} =>
         \E idx \in TypeLabels :
           /\ response.data.primary_category =
                [category |-> id2label[idx], confidence |-> outcome.proba[idx]]
           /\ \A j \in TypeLabels : outcome.proba[j] <= outcome.proba[idx]
    /\ response.data.primary_category = [category |-> "Other", confidence |-> 500] =>
         TypeLabels = {}


\* C26 (as claimed): on every path of classify_transaction and for both
\* types, the category of a successful response is declared in CATEGORY_TYPES
\* with the requested type; the default "Other" is of the requested type for
\* income as for expense.
C26_ResultTypeInvariant ==
  (AppAnswered /\ response.code = 200) =>
    CategoryType(response.data.category) = request.type


\* The handler of moment-fastapi-app.py has reached the model call.
ReachedModel == service = "app" /\ (pc = "model" \/ "model" \in calls)

\* C27: whenever classify_transaction reaches the model call the rule
\* category is None; so the answer "Using rule-based category as ML fallback"
\* is never given, the confidence is never raised to the rule's, and every
\* suggestion is a ranked label of the model with its probability.
C27_NoRuleCategoryOnModelPath ==
  ReachedModel =>
    /\ rule_verdict.category = None
    /\ rule_verdict.confidence = 0
    /\ response.message # <<"Using rule-based category as ML fallback">>
    /\ (pc = "done" /\ outcome.raises = None) =>
         /\ Candidates # {} => response.data.confidence = outcome.proba[Top]
         /\ \A i \in DOMAIN response.data.suggestions :
              \E idx \in Candidates :
                response.data.suggestions[i] =
                  [category |-> id2label[idx], confidence |-> outcome.proba[idx]]

\* "purchase," as an expense: the weakest verdict (0.90) has decided and the
\* model was not called; "for" went to the model without a rule category and
\* came back with suggestions.
C27_Witness ==
  /\ ReachedModel
  /\ pc = "done"
  /\ request.text = <<"for">>
  /\ apply_rule_based_classification(<<"purchase,">>, "expense").confidence = 900
  /\ RuleDecides(apply_rule_based_classification(<<"purchase,">>, "expense"))
  /\ rule_verdict.category = None
  /\ Len(response.data.suggestions) = 3


\* The intent words that are keywords themselves.
IntentKeys ==
  (Range(shopping_intent_keywords) \ {"purchase"})
    \cup Range(food_intent_keywords)
    \cup Range(transport_intent_keywords)
    \cup {"travel", "liburan"}

\* C28: every food and transport intent word, every shopping intent word
\* but "purchase", and "travel" and "liburan" are keywords of an expense
\* category, so the pass over the normalized words decides before the intent
\* sets are consulted: no verdict at 0.90 is "Food & Dining" or
\* "Transportation", one for "Shopping" has "purchase" among the normalized
\* words and one for "Travel" has one of wisata, tur, tour, trip, holiday,
\* vacation, jalan.
C28_IntentReachability ==
  /\ \A w \in IntentKeys :
       <<w>> \in Keywords /\ CategoryType(KEYWORD_MAPPINGS[<<w>>]) = "expense"
  /\ AppRuled =>
       /\ (request.type = "expense" /\ Range(NormWords) \cap IntentKeys # {}) =>
            rule_verdict.confidence \in {980, 950}
       /\ rule_verdict.confidence = 900 =>
            /\ rule_verdict.category \in {"Shopping", "Travel"}
            /\ rule_verdict.category = "Shopping" => "purchase" \in Range(NormWords)
            /\ rule_verdict.category = "Travel" =>
                 Range(NormWords) \cap
                   {"wisata", "tur", "tour", "trip", "holiday", "vacation", "jalan"} # {}

\* "dimakan" as an expense with the stemmer that knows the prefix: the stem
\* "makan" is a food intent word and the keyword pass has decided at 0.95.
C28_Witness ==
  /\ AppRuled
  /\ request.text = <<"dimakan">>
  /\ request.type = "expense"
  /\ RawHits = {}
  /\ NormWords = <<"makan">>
  /\ IntentOverlap(food_intent_keywords)
  /\ rule_verdict.category = "Food & Dining"
  /\ rule_verdict.confidence = 950


\* The lowercased words of the request.
RawWords == [i \in DOMAIN request.text |-> Lower(request.text[i])]

====
